---- MODULE Spec2Model ----
(***************************************************************************)
(* Entity graph and skill binding of DeepEmbody (uapi/graph/entity.py).    *)
(*                                                                         *)
(* Entities are the integers 1..NumEntities; Python's None is 0.  A string *)
(* is a sequence of one-character strings, so that strip, split and the    *)
(* path concatenations are computed character by character.  Every         *)
(* operation that can raise returns a record whose err field is "none" or  *)
(* the name of the Python exception.                                       *)
(***************************************************************************)
EXTENDS Integers, Sequences, FiniteSets, TLC

\* ---------------------------------------------------------------- bounds
NumEntities == 3
MaxRel == 2
MaxCalls == 3
MaxLog == 1

\* ------------------------------------------------------------- universes
Entities == 1..NumEntities
None == 0

\* create_root_room names the root room "/"
RootName == <<"/">>
\* names given to the other entities at creation
NamePool == { <<"a">>, <<"b">>, <<"a", "/", "b">> }

\* names handed to bind_skill: two registered ones and one that is not
SkillNames == {"c_space_getpos", "c_space_move", "c_not_registered"}
\* the callables handed to bind_skill
Impls == {"impl_a", "impl_b"}

\* paths handed to get_entity_by_path
PathPool ==
  { <<>>, <<"/">>, <<"a">>, <<"b">>, <<"/", "a">>, <<"a", "/">>,
    <<"a", "/", "b">>, <<"/", "a", "/", "b">>, <<"a", "/", "/", "b">>,
    <<"a", "/", "a">>, <<"/", "b", "/", "a", "/">> }

VARIABLES
  entity_name,         \* Entity.entity_name of every entity
  relations,           \* Entity.relations: parent_of / child_of lists
  primitives,          \* Entity.primitives: ordered list of skill names
  primitive_bindings,  \* Entity.primitive_bindings: name -> implementation
  last,                \* the relation call made last and how it ended
  calls,               \* the bind_skill calls made so far, oldest first
  inv,                 \* the skill lookup or invocation in progress or made last
  flow_calls,          \* the calls of flow-wrapped functions made so far
  log,                 \* what the flow wrapper wrote to the logger, oldest first
  members,             \* the members of a module: name -> object
  found,               \* what get_flow_functions returned, if just called
  probe,               \* the matcher or caster call made last and its result
  first_added,         \* the children entity 1 was ever given, oldest first
  walk,                \* the path call in progress or made last, frame by frame
  manager,             \* the relations of the same entities in the manager
                       \* module, and how its relation call made last ended
  client               \* MCPClient.process_query: where the call stands and
                       \* the locals of its tool-call loop

core == <<entity_name, relations, primitives, primitive_bindings, last, calls,
          inv, flow_calls, log>>
moduleVars == <<members, found>>
matchVars == <<probe>>
orderVars == <<first_added>>
walkVars == <<walk>>
managerVars == <<manager>>
clientVars == <<client>>
others == <<moduleVars, matchVars, orderVars, walkVars, managerVars, clientVars>>
exceptModule == <<core, matchVars, orderVars, walkVars, managerVars, clientVars>>
exceptMatch == <<core, moduleVars, orderVars, walkVars, managerVars, clientVars>>
exceptWalk == <<core, moduleVars, matchVars, orderVars, managerVars, clientVars>>
exceptClient == <<core, moduleVars, matchVars, orderVars, walkVars, managerVars>>
vars == <<core, others>>

\* ------------------------------------------------------- list helpers
\* Python's "x in list"
InList(x, l) == \E i \in 1..Len(l) : l[i] = x

\* Python's list.remove(x): drops the first occurrence of x
RECURSIVE list_remove(_, _)
list_remove(l, x) ==
  IF l = <<>> THEN <<>>
  ELSE IF Head(l) = x THEN Tail(l)
  ELSE <<Head(l)>> \o list_remove(Tail(l), x)

\* ------------------------------------------------- relation operations
add_relation_front(rels, s, rt, t) ==
  IF ~InList(t, rels[s][rt])
  THEN [rels EXCEPT ![s][rt] = <<t>> \o @]
  ELSE rels

add_relation(rels, s, rt, t) ==
  IF ~InList(t, rels[s][rt])
  THEN [rels EXCEPT ![s][rt] = Append(@, t)]
  ELSE rels

remove_relation(rels, s, rt, t) ==
  IF InList(t, rels[s][rt])
  THEN [rels EXCEPT ![s][rt] = list_remove(@, t)]
  ELSE rels

add_parent_noguard(rels, s, p) ==
  [err |-> "none",
   rels |-> add_relation(add_relation(rels, s, "parent_of", p), p, "child_of", s)]

add_parent(rels, s, p) ==
  IF p = s
  THEN [err |-> "ValueError", rels |-> rels]
  ELSE [err |-> "none",
        rels |-> add_relation(add_relation(rels, s, "parent_of", p),
                              p, "child_of", s)]

add_child_onesided(rels, s, c) ==
  IF c = s
  THEN [err |-> "ValueError", rels |-> rels]
  ELSE [err |-> "none", rels |-> add_relation(rels, s, "child_of", c)]

add_child(rels, s, c) ==
  IF c = s
  THEN [err |-> "ValueError", rels |-> rels]
  ELSE [err |-> "none",
        rels |-> add_relation(add_relation(rels, s, "child_of", c),
                              c, "parent_of", s)]

remove_parent(rels, s, p) ==
  [err |-> "none",
   rels |-> remove_relation(remove_relation(rels, s, "parent_of", p),
                            p, "child_of", s)]

remove_child_onesided(rels, s, c) ==
  [err |-> "none", rels |-> remove_relation(rels, s, "child_of", c)]

remove_child(rels, s, c) ==
  [err |-> "none",
   rels |-> remove_relation(remove_relation(rels, s, "child_of", c),
                            c, "parent_of", s)]

\* ---------------------------------------------------------- graph reads
get_relations(e, rt) == relations[e][rt]

get_parent_first(e) ==
  LET parent == get_relations(e, "parent_of") IN
  IF parent # <<>> THEN [err |-> "none", val |-> parent[1]]
  ELSE [err |-> "none", val |-> None]

get_parent(e) ==
  LET parent == get_relations(e, "parent_of") IN
  IF Len(parent) > 1 THEN [err |-> "ValueError", val |-> None]
  ELSE IF parent # <<>> THEN [err |-> "none", val |-> parent[1]]
  ELSE [err |-> "none", val |-> None]

get_children(e) == get_relations(e, "child_of")

is_root(e) ==
  LET p == get_parent(e) IN
  IF p.err # "none" THEN [err |-> p.err, val |-> FALSE]
  ELSE [err |-> "none", val |-> (p.val = None)]

\* Depth of recursion after which get_absolute_path cannot return: a parent
\* chain longer than the number of entities repeats an entity, and the
\* recursion then ends only at the interpreter's recursion limit.
RecursionLimit == NumEntities + 1

RECURSIVE get_absolute_path_at(_, _)
RECURSIVE get_absolute_path_at_norootcase(_, _)

get_absolute_path_at_norootcase(e, fuel) ==
  IF fuel = 0 THEN [err |-> "RecursionError", val |-> <<>>]
  ELSE
    LET path == entity_name[e]
        parent == get_parent(e)
    IN IF parent.err # "none" THEN [err |-> parent.err, val |-> <<>>]
       ELSE IF parent.val = None THEN [err |-> "none", val |-> path]
       ELSE LET pp == get_absolute_path_at(parent.val, fuel - 1) IN
            IF pp.err # "none" THEN pp
            ELSE [err |-> "none", val |-> pp.val \o <<"/">> \o path]

get_absolute_path_at(e, fuel) ==
  IF fuel = 0 THEN [err |-> "RecursionError", val |-> <<>>]
  ELSE
    LET path == entity_name[e]
        parent == get_parent(e)
    IN IF parent.err # "none" THEN [err |-> parent.err, val |-> <<>>]
       ELSE IF parent.val = None THEN [err |-> "none", val |-> path]
       ELSE LET r == is_root(parent.val) IN
            IF r.err # "none" THEN [err |-> r.err, val |-> <<>>]
            ELSE IF r.val THEN [err |-> "none", val |-> <<"/">> \o path]
            ELSE LET pp == get_absolute_path_at(parent.val, fuel - 1) IN
                 IF pp.err # "none" THEN pp
                 ELSE [err |-> "none", val |-> pp.val \o <<"/">> \o path]

get_absolute_path(e) == get_absolute_path_at(e, RecursionLimit)

\* str.strip("/")
RECURSIVE lstrip(_)
lstrip(s) ==
  IF s = <<>> THEN s
  ELSE IF Head(s) = "/" THEN lstrip(Tail(s)) ELSE s

RECURSIVE rstrip(_)
rstrip(s) ==
  IF s = <<>> THEN s
  ELSE IF s[Len(s)] = "/" THEN rstrip(SubSeq(s, 1, Len(s) - 1)) ELSE s

strip(s) == rstrip(lstrip(s))

\* str.split("/"): the pieces between the separators, empty pieces included
RECURSIVE split(_)
split(s) ==
  IF s = <<>> THEN << <<>> >>
  ELSE IF Head(s) = "/" THEN << <<>> >> \o split(Tail(s))
  ELSE LET r == split(Tail(s)) IN << <<Head(s)>> \o Head(r) >> \o Tail(r)

NonEmpty(p) == p # <<>>

\* the inner loop of get_entity_by_path: first child, in list order, whose
\* name is the segment; None when there is none
RECURSIVE find_child(_, _)
RECURSIVE find_child_last(_, _)

find_child_last(children, name) ==
  IF children = <<>> THEN None
  ELSE LET r == find_child_last(Tail(children), name) IN
       IF r # None THEN r
       ELSE IF entity_name[Head(children)] = name THEN Head(children)
       ELSE None

find_child(children, name) ==
  IF children = <<>> THEN None
  ELSE IF entity_name[Head(children)] = name THEN Head(children)
  ELSE find_child(Tail(children), name)

\* the outer loop of get_entity_by_path
RECURSIVE descend(_, _)
descend(current, path_split) ==
  IF path_split = <<>> THEN current
  ELSE LET child == find_child(get_children(current), Head(path_split)) IN
       IF child = None THEN None
       ELSE descend(child, Tail(path_split))

get_entity_by_path_nostrip(e, path) ==
  LET path_split == split(path) IN
  IF path_split = <<>> THEN e ELSE descend(e, path_split)

get_entity_by_path(e, path) ==
  LET path_split == SelectSeq(split(strip(path)), NonEmpty) IN
  IF path_split = <<>> THEN e ELSE descend(e, path_split)

\* ------------------------------------------------------- manager module
\* the relation and path operations of src/manager/graph/entity.py, on the
\* relations its entities hold
manager_add_relation(rels, s, rt, t) ==
  IF ~InList(t, rels[s][rt])
  THEN [rels EXCEPT ![s][rt] = Append(@, t)]
  ELSE rels

manager_remove_relation(rels, s, rt, t) ==
  IF InList(t, rels[s][rt])
  THEN [rels EXCEPT ![s][rt] = list_remove(@, t)]
  ELSE rels

manager_add_parent(rels, s, p) ==
  IF p = s
  THEN [err |-> "ValueError", rels |-> rels]
  ELSE [err |-> "none",
        rels |-> manager_add_relation(manager_add_relation(rels, s, "parent_of", p),
                                      p, "child_of", s)]

manager_add_child_onesided(rels, s, c) ==
  IF c = s
  THEN [err |-> "ValueError", rels |-> rels]
  ELSE [err |-> "none", rels |-> manager_add_relation(rels, s, "child_of", c)]

manager_add_child(rels, s, c) ==
  IF c = s
  THEN [err |-> "ValueError", rels |-> rels]
  ELSE [err |-> "none",
        rels |-> manager_add_relation(manager_add_relation(rels, s, "child_of", c),
                                      c, "parent_of", s)]

manager_remove_parent(rels, s, p) ==
  [err |-> "none",
   rels |-> manager_remove_relation(
              manager_remove_relation(rels, s, "parent_of", p), p, "child_of", s)]

manager_remove_child(rels, s, c) ==
  [err |-> "none",
   rels |-> manager_remove_relation(
              manager_remove_relation(rels, s, "child_of", c), c, "parent_of", s)]

manager_get_relations(e, rt) == manager.relations[e][rt]

manager_get_parent(e) ==
  LET parent == manager_get_relations(e, "parent_of") IN
  IF Len(parent) > 1 THEN [err |-> "ValueError", val |-> None]
  ELSE IF parent # <<>> THEN [err |-> "none", val |-> parent[1]]
  ELSE [err |-> "none", val |-> None]

manager_get_children(e) == manager_get_relations(e, "child_of")

manager_is_root(e) ==
  LET p == manager_get_parent(e) IN
  IF p.err # "none" THEN [err |-> p.err, val |-> FALSE]
  ELSE [err |-> "none", val |-> (p.val = None)]

RECURSIVE manager_get_absolute_path_at(_, _)
manager_get_absolute_path_at(e, fuel) ==
  IF fuel = 0 THEN [err |-> "RecursionError", val |-> <<>>]
  ELSE
    LET path == entity_name[e]
        parent == manager_get_parent(e)
    IN IF parent.err # "none" THEN [err |-> parent.err, val |-> <<>>]
       ELSE IF parent.val = None THEN [err |-> "none", val |-> path]
       ELSE LET r == manager_is_root(parent.val) IN
            IF r.err # "none" THEN [err |-> r.err, val |-> <<>>]
            ELSE IF r.val THEN [err |-> "none", val |-> <<"/">> \o path]
            ELSE LET pp == manager_get_absolute_path_at(parent.val, fuel - 1) IN
                 IF pp.err # "none" THEN pp
                 ELSE [err |-> "none", val |-> pp.val \o <<"/">> \o path]

manager_get_absolute_path(e) == manager_get_absolute_path_at(e, RecursionLimit)

RECURSIVE manager_find_child(_, _)
manager_find_child(children, name) ==
  IF children = <<>> THEN None
  ELSE IF entity_name[Head(children)] = name THEN Head(children)
  ELSE manager_find_child(Tail(children), name)

RECURSIVE manager_descend(_, _)
manager_descend(current, path_split) ==
  IF path_split = <<>> THEN current
  ELSE LET child == manager_find_child(manager_get_children(current),
                                       Head(path_split))
       IN IF child = None THEN None
          ELSE manager_descend(child, Tail(path_split))

manager_get_entity_by_path(e, path) ==
  LET path_split == SelectSeq(split(strip(path)), NonEmpty) IN
  IF path_split = <<>> THEN e ELSE manager_descend(e, path_split)

\* ------------------------------------------------- values and shapes
\* A Python value is a record: a scalar has its type's name and its literal,
\* a dict has its items, a list and a tuple their elements, a member of an
\* enumeration the name of its class and its own, an instance of a dataclass
\* the name of its class and its attributes.
PyVal(t, l) == [type |-> t, lit |-> l]
PyDict(items) == [type |-> "dict", items |-> items]
PyList(elems) == [type |-> "list", elems |-> elems]
PyTuple(elems) == [type |-> "tuple", elems |-> elems]
PyObject(class, items) == [type |-> class, items |-> items]
PyNone == PyVal("NoneType", "None")
PyTrue == PyVal("bool", "True")
PyFalse == PyVal("bool", "False")

\* A shape of a skill spec: a Python type, a dict of shapes (its items in
\* declaration order), a list of alternative shapes, typing.Any, an Enum
\* class, a dataclass (its fields in declaration order), List[elem],
\* Tuple[elems...] or Dict[str, Any].
TypeShape(t) == [kind |-> "type", type |-> t]
DictShape(fields) == [kind |-> "dict", fields |-> fields]
AltShape(alts) == [kind |-> "alternatives", alts |-> alts]
AnyShape == [kind |-> "any"]
EnumShape(class) == [kind |-> "enum", type |-> class]
DataclassShape(class, fields) ==
  [kind |-> "dataclass", type |-> class, fields |-> fields]
ListShape(elem) == [kind |-> "list_of", elem |-> elem]
TupleShape(elems) == [kind |-> "tuple_of", elems |-> elems]
DictOfShape == [kind |-> "dict_of"]
\* spec["input"] of a skill that takes no argument
NoInput == [kind |-> "none"]

ShapeKeys(shape) == { shape.fields[i][1] : i \in 1..Len(shape.fields) }

\* the registry: skill name -> input and output schema
SkillSpecTable ==
  [ c_space_getpos |->
      [input  |-> NoInput,
       output |-> DictShape(<< <<"x", TypeShape("float")>>,
                               <<"y", TypeShape("float")>>,
                               <<"z", TypeShape("float")>> >>)],
    c_space_move |->
      [input  |-> DictShape(<< <<"x", TypeShape("float")>>,
                               <<"y", TypeShape("float")>>,
                               <<"z", TypeShape("float")>> >>),
       output |-> DictShape(<< <<"success", TypeShape("bool")>> >>)],
    c_space_goto |->
      [input  |-> DictShape(<< <<"target",
                                 DictShape(<< <<"x", TypeShape("float")>>,
                                              <<"y", TypeShape("float")>> >>)>> >>),
       output |-> DictShape(<< <<"success", TypeShape("bool")>> >>)] ]

\* the names of the skill-spec registry (uapi.specs.skill_specs)
EOS_SKILL_SPECS == DOMAIN SkillSpecTable

\* ------------------------------------------------------ skill binding
\* an empty dict
EmptyDict == [n \in {} |-> n]

add_primitive(prims, primitive) ==
  IF ~InList(primitive, prims) THEN Append(prims, primitive) ELSE prims

remove_primitive(prims, primitive) ==
  IF InList(primitive, prims) THEN list_remove(prims, primitive) ELSE prims

has_primitive(prims, primitive) == InList(primitive, prims)

\* bind_skill on an entity whose primitives and primitive_bindings are
\* prims and binds
bind_skill_unchecked(prims, binds, primitive_name, func) ==
  [err |-> "none",
   primitive_bindings |-> (primitive_name :> func) @@ binds,
   primitives |-> add_primitive(prims, primitive_name)]

bind_skill_keepfirst(prims, binds, primitive_name, func) ==
  IF primitive_name \notin EOS_SKILL_SPECS
  THEN [err |-> "ValueError", primitive_bindings |-> binds, primitives |-> prims]
  ELSE [err |-> "none",
        primitive_bindings |-> binds @@ (primitive_name :> func),
        primitives |-> add_primitive(prims, primitive_name)]

bind_skill(prims, binds, primitive_name, func) ==
  IF primitive_name \notin EOS_SKILL_SPECS
  THEN [err |-> "ValueError", primitive_bindings |-> binds, primitives |-> prims]
  ELSE [err |-> "none",
        primitive_bindings |-> (primitive_name :> func) @@ binds,
        primitives |-> add_primitive(prims, primitive_name)]

\* attribute lookup of a skill name on an entity: the implementation the
\* returned wrapper calls, or AttributeError when the name is not bound
getattr_binding(e, name) ==
  IF name \in DOMAIN primitive_bindings[e]
  THEN [err |-> "none", impl |-> primitive_bindings[e][name]]
  ELSE [err |-> "AttributeError", impl |-> "no_impl"]

\* ------------------------------------------------- matching and casting
\* isinstance(value, t) for a Python type t: bool is a subclass of int
isinstance(value, t) ==
  \/ value.type = t
  \/ t = "int" /\ value.type = "bool"

\* float(literal) of the int, bool and str literals that have one
IntToFloat == [i \in {"0", "1", "2"} |->
                 IF i = "0" THEN "0.0" ELSE IF i = "1" THEN "1.0" ELSE "2.0"]
BoolToFloat == [b \in {"True", "False"} |-> IF b = "True" THEN "1.0" ELSE "0.0"]
StrToFloat == [t \in {"1.5", "2"} |-> IF t = "1.5" THEN "1.5" ELSE "2.0"]

Raised(kind) == [err |-> kind, val |-> PyNone]
Returned(v) == [err |-> "none", val |-> v]

\* what a matcher returns, and the test "if <what it returned>"
Verdict(b) == Returned(IF b THEN PyTrue ELSE PyFalse)
IsTrue(r) == r = Returned(PyTrue)

\* int(literal) of the float, bool and str literals that have one
FloatToInt == [f \in {"0.0", "1.0", "1.5", "2.0"} |->
                 IF f = "0.0" THEN "0" ELSE IF f = "2.0" THEN "2" ELSE "1"]
BoolToInt == [b \in {"True", "False"} |-> IF b = "True" THEN "1" ELSE "0"]
StrToInt == [t \in {"2"} |-> "2"]

\* the members of the enumerations with their values, and the literals of
\* the numbers that compare equal to a member's value
EnumMembers == [Color |-> [RED |-> "1", GREEN |-> "2"]]
EqualLiterals ==
  [i \in {"1", "2"} |->
     IF i = "1" THEN { PyVal("int", "1"), PyVal("float", "1.0"), PyTrue }
     ELSE { PyVal("int", "2"), PyVal("float", "2.0") }]

\* class(value) of an Enum class: the member with that value, or ValueError
enum_call(class, value) ==
  LET ms == { m \in DOMAIN EnumMembers[class] :
                value \in EqualLiterals[EnumMembers[class][m]] }
  IN IF ms = {} THEN Raised("ValueError")
     ELSE Returned(PyVal(class, CHOOSE m \in ms : TRUE))

\* the falsy scalar literals of each type
Falsy == { PyVal("float", "0.0"), PyVal("int", "0"), PyVal("str", ""),
           PyVal("bool", "False"), PyNone }


\* t(value): calling the Python type t on a value
type_call(t, value) ==
  IF t = "float" THEN
    IF value.type = "float" THEN Returned(value)
    ELSE IF value.type = "int" /\ value.lit \in DOMAIN IntToFloat
      THEN Returned(PyVal("float", IntToFloat[value.lit]))
    ELSE IF value.type = "bool"
      THEN Returned(PyVal("float", BoolToFloat[value.lit]))
    ELSE IF value.type = "str"
      THEN IF value.lit \in DOMAIN StrToFloat
           THEN Returned(PyVal("float", StrToFloat[value.lit]))
           ELSE Raised("ValueError")
    ELSE Raised("TypeError")
  ELSE IF t = "bool" THEN
    IF value.type = "dict"
    THEN Returned(PyVal("bool", IF DOMAIN value.items = {} THEN "False" ELSE "True"))
    ELSE IF value.type \in {"list", "tuple"}
    THEN Returned(PyVal("bool", IF value.elems = <<>> THEN "False" ELSE "True"))
    ELSE Returned(PyVal("bool", IF value \in Falsy THEN "False" ELSE "True"))
  ELSE IF t = "int" THEN
    IF value.type = "int" THEN Returned(value)
    ELSE IF value.type = "float" /\ value.lit \in DOMAIN FloatToInt
      THEN Returned(PyVal("int", FloatToInt[value.lit]))
    ELSE IF value.type = "bool"
      THEN Returned(PyVal("int", BoolToInt[value.lit]))
    ELSE IF value.type = "str"
      THEN IF value.lit \in DOMAIN StrToInt
           THEN Returned(PyVal("int", StrToInt[value.lit]))
           ELSE Raised("ValueError")
    ELSE Raised("TypeError")
  ELSE Raised("TypeError")

RECURSIVE is_type_match(_, _)
RECURSIVE match_alternatives(_, _)
RECURSIVE match_fields(_, _)
RECURSIVE try_cast(_, _)
RECURSIVE cast_alternatives(_, _)
RECURSIVE cast_fields(_, _, _)

\* the loop over the alternatives in _is_type_match
match_alternatives(value, alts) ==
  IF alts = <<>> THEN Verdict(FALSE)
  ELSE LET r == is_type_match(value, Head(alts)) IN
       IF r = Verdict(FALSE) THEN match_alternatives(value, Tail(alts)) ELSE r

\* the loop over the keys of a dict shape in _is_type_match
match_fields(value, fields) ==
  IF fields = <<>> THEN Verdict(TRUE)
  ELSE LET r == is_type_match(value.items[Head(fields)[1]], Head(fields)[2]) IN
       IF r = Verdict(TRUE) THEN match_fields(value, Tail(fields)) ELSE r

\* _is_type_match: True, False, or the TypeError of isinstance when its
\* second argument is typing.Any, a subscripted generic or None
is_type_match(value, expected_type) ==
  IF expected_type.kind = "alternatives"
    THEN match_alternatives(value, expected_type.alts)
  ELSE IF expected_type.kind = "dict" THEN
    IF value.type # "dict" THEN Verdict(FALSE)
    ELSE IF DOMAIN value.items # ShapeKeys(expected_type) THEN Verdict(FALSE)
    ELSE match_fields(value, expected_type.fields)
  ELSE IF expected_type.kind = "dataclass"
    THEN Verdict(isinstance(value, expected_type.type))
  ELSE IF expected_type.kind = "enum"
    THEN Verdict(isinstance(value, expected_type.type))
  ELSE IF expected_type.kind = "type"
    THEN Verdict(isinstance(value, expected_type.type))
  ELSE Raised("TypeError")

RECURSIVE cast_alternatives_last(_, _)
cast_alternatives_last(value, alts) ==
  IF alts = <<>> THEN Raised("TypeError")
  ELSE LET r == try_cast(value, Head(alts))
           l == cast_alternatives_last(value, Tail(alts))
       IN IF l.err = "none" \/ r.err # "none" THEN l ELSE r

\* the loop over the alternatives in _try_cast: "except Exception: continue"
cast_alternatives(value, alts) ==
  IF alts = <<>> THEN Raised("TypeError")
  ELSE LET r == try_cast(value, Head(alts)) IN
       IF r.err = "none" THEN r ELSE cast_alternatives(value, Tail(alts))

\* the dict comprehension of _try_cast, one field after the other; done is
\* the dict built so far
cast_fields(value, fields, done) ==
  IF fields = <<>> THEN Returned(PyDict(done))
  ELSE LET k == Head(fields)[1] IN
       IF k \notin DOMAIN value.items
       THEN [err |-> "KeyError", val |-> PyVal("str", k)]
       ELSE LET r == try_cast(value.items[k], Head(fields)[2]) IN
            IF r.err # "none" THEN r
            ELSE cast_fields(value, Tail(fields), (k :> r.val) @@ done)

\* _try_cast: the cast value or the exception raised; calling typing.Any or
\* a subscripted generic of typing raises TypeError
try_cast(value, expected_type) ==
  IF expected_type.kind = "alternatives"
    THEN cast_alternatives(value, expected_type.alts)
  ELSE IF expected_type.kind = "dict" THEN
    IF value.type # "dict" THEN Raised("TypeError")
    ELSE cast_fields(value, expected_type.fields, EmptyDict)
  ELSE IF expected_type.kind = "dataclass" THEN
    IF ~isinstance(value, expected_type.type) THEN Raised("TypeError")
    ELSE Returned(value)
  ELSE IF expected_type.kind = "enum" THEN
    IF isinstance(value, expected_type.type) THEN Returned(value)
    ELSE enum_call(expected_type.type, value)
  ELSE IF expected_type.kind = "type"
    THEN type_call(expected_type.type, value)
  ELSE Raised("TypeError")

\* ------------------------------------------------- skill invocation
format_primitive_error_nodetails(primitive_name, error_type, details) ==
  <<error_type, ": ", " (primitive: ", primitive_name, ")">>

\* format_primitive_error: the message as the sequence of its pieces
format_primitive_error(primitive_name, error_type, details) ==
  <<error_type, ": ">> \o details \o <<" (primitive: ", primitive_name, ")">>

\* the texts of the validation errors, as the pieces the code puts together
NoArgumentsMsg(primitive_name) ==
  <<"Primitive '", primitive_name, "' expects no arguments">>
ArgumentNamesMsg(primitive_name) ==
  <<"Arguments for '", primitive_name, "' must be the declared names">>
ArgumentTypeMsg(arg_name, primitive_name) ==
  <<"Argument '", arg_name, "' for '", primitive_name, "' must be the declared type">>
ReturnTypeMsg(primitive_name) ==
  <<"Return value for '", primitive_name, "' does not match expected type">>
\* the text of the TypeError of isinstance
IsinstanceMsg == <<"isinstance() arg 2 must be a type">>

\* an exception with its message, or no exception; kwargs is the argument
\* dict as the call leaves it
Outcome(kind, msg, kwargs) == [err |-> kind, msg |-> msg, kwargs |-> kwargs]

\* the loop of _check_primitive_args over the declared arguments, which
\* replaces a mismatched argument by its cast in the dict it was given
RECURSIVE check_arg_types(_, _, _)
RECURSIVE check_arg_types_nocast(_, _, _)

check_arg_types_nocast(primitive_name, fields, kwargs) ==
  IF fields = <<>> THEN Outcome("none", <<>>, kwargs)
  ELSE LET arg_name == Head(fields)[1]
           expected_type == Head(fields)[2]
           c == try_cast(kwargs[arg_name], expected_type)
           m == is_type_match(kwargs[arg_name], expected_type)
       IN
       IF m.err # "none" THEN Outcome(m.err, IsinstanceMsg, kwargs)
       ELSE IF IsTrue(m) \/ c.err = "none"
       THEN check_arg_types_nocast(primitive_name, Tail(fields), kwargs)
       ELSE IF c.err \in {"ValueError", "TypeError"}
       THEN Outcome("TypeError", ArgumentTypeMsg(arg_name, primitive_name), kwargs)
       ELSE Outcome(c.err, <<"'", c.val.lit, "'">>, kwargs)

check_arg_types(primitive_name, fields, kwargs) ==
  IF fields = <<>> THEN Outcome("none", <<>>, kwargs)
  ELSE LET arg_name == Head(fields)[1]
           expected_type == Head(fields)[2]
           m == is_type_match(kwargs[arg_name], expected_type)
       IN
       IF m.err # "none" THEN Outcome(m.err, IsinstanceMsg, kwargs)
       ELSE IF IsTrue(m)
       THEN check_arg_types(primitive_name, Tail(fields), kwargs)
       ELSE LET c == try_cast(kwargs[arg_name], expected_type) IN
            IF c.err = "none"
            THEN check_arg_types(primitive_name, Tail(fields),
                                 [kwargs EXCEPT ![arg_name] = c.val])
            ELSE IF c.err \in {"ValueError", "TypeError"}
            THEN Outcome("TypeError", ArgumentTypeMsg(arg_name, primitive_name), kwargs)
            ELSE Outcome(c.err, <<"'", c.val.lit, "'">>, kwargs)

check_primitive_args_extra(primitive_name, kwargs) ==
  LET expected_input == SkillSpecTable[primitive_name].input IN
  IF expected_input = NoInput THEN Outcome("none", <<>>, kwargs)
  ELSE IF ~(ShapeKeys(expected_input) \subseteq DOMAIN kwargs)
    THEN Outcome("ValueError", ArgumentNamesMsg(primitive_name), kwargs)
  ELSE check_arg_types(primitive_name, expected_input.fields, kwargs)

check_primitive_args(primitive_name, kwargs) ==
  LET expected_input == SkillSpecTable[primitive_name].input IN
  IF expected_input = NoInput THEN
    IF DOMAIN kwargs # {}
    THEN Outcome("ValueError", NoArgumentsMsg(primitive_name), kwargs)
    ELSE Outcome("none", <<>>, kwargs)
  ELSE IF DOMAIN kwargs # ShapeKeys(expected_input)
    THEN Outcome("ValueError", ArgumentNamesMsg(primitive_name), kwargs)
  ELSE check_arg_types(primitive_name, expected_input.fields, kwargs)

\* recursive_type_check of _check_primitive_returns: True, False, or the
\* TypeError of isinstance when the shape is a list of alternatives or None
RECURSIVE recursive_type_check(_, _)
RECURSIVE check_fields(_, _)
RECURSIVE check_elems(_, _)
RECURSIVE check_positions(_, _)
RECURSIVE recursive_type_check_extrakeys(_, _)
RECURSIVE check_fields_extrakeys(_, _)

check_fields_extrakeys(value, fields) ==
  IF fields = <<>> THEN Verdict(TRUE)
  ELSE LET r == recursive_type_check_extrakeys(value.items[Head(fields)[1]],
                                               Head(fields)[2])
       IN IF r = Verdict(TRUE) THEN check_fields_extrakeys(value, Tail(fields))
          ELSE r

recursive_type_check_extrakeys(value, expected_type) ==
  IF expected_type.kind = "any" THEN Verdict(TRUE)
  ELSE IF expected_type.kind = "dict" THEN
    IF value.type # "dict" THEN Verdict(FALSE)
    ELSE IF ~(ShapeKeys(expected_type) \subseteq DOMAIN value.items)
      THEN Verdict(FALSE)
    ELSE check_fields_extrakeys(value, expected_type.fields)
  ELSE IF expected_type.kind = "type"
    THEN Verdict(isinstance(value, expected_type.type))
  ELSE Raised("TypeError")

\* the loops over the fields of a dataclass and over the keys of a dict shape
check_fields(value, fields) ==
  IF fields = <<>> THEN Verdict(TRUE)
  ELSE LET r == recursive_type_check(value.items[Head(fields)[1]],
                                     Head(fields)[2])
       IN IF r = Verdict(TRUE) THEN check_fields(value, Tail(fields)) ELSE r

\* all(recursive_type_check(v, elem_type) for v in value)
check_elems(elems, elem_type) ==
  IF elems = <<>> THEN Verdict(TRUE)
  ELSE LET r == recursive_type_check(Head(elems), elem_type) IN
       IF r = Verdict(TRUE) THEN check_elems(Tail(elems), elem_type) ELSE r

\* the loop over the positions of a tuple
check_positions(elems, types) ==
  IF types = <<>> THEN Verdict(TRUE)
  ELSE LET r == recursive_type_check(Head(elems), Head(types)) IN
       IF r = Verdict(TRUE) THEN check_positions(Tail(elems), Tail(types))
       ELSE r

recursive_type_check(value, expected_type) ==
  IF expected_type.kind = "any" THEN Verdict(TRUE)
  ELSE IF expected_type.kind = "dataclass" THEN
    IF ~isinstance(value, expected_type.type) THEN Verdict(FALSE)
    ELSE check_fields(value, expected_type.fields)
  ELSE IF expected_type.kind = "dict" THEN
    IF value.type # "dict" THEN Verdict(FALSE)
    ELSE IF DOMAIN value.items # ShapeKeys(expected_type) THEN Verdict(FALSE)
    ELSE check_fields(value, expected_type.fields)
  ELSE IF expected_type.kind = "list_of" THEN
    IF value.type # "list" THEN Verdict(FALSE)
    ELSE check_elems(value.elems, expected_type.elem)
  ELSE IF expected_type.kind = "dict_of" THEN Verdict(value.type = "dict")
  ELSE IF expected_type.kind = "tuple_of" THEN
    IF value.type # "tuple" THEN Verdict(FALSE)
    ELSE IF Len(value.elems) # Len(expected_type.elems) THEN Verdict(FALSE)
    ELSE check_positions(value.elems, expected_type.elems)
  ELSE IF expected_type.kind = "enum"
    THEN Verdict(isinstance(value, expected_type.type))
  ELSE IF expected_type.kind = "type"
    THEN Verdict(isinstance(value, expected_type.type))
  ELSE Raised("TypeError")

\* _check_primitive_returns: a False verdict raises the TypeError of the
\* engine, a TypeError of isinstance passes through
check_primitive_returns(primitive_name, result) ==
  LET r == recursive_type_check(result, SkillSpecTable[primitive_name].output) IN
  IF r.err # "none" THEN [err |-> r.err, msg |-> IsinstanceMsg]
  ELSE IF ~IsTrue(r)
  THEN [err |-> "TypeError", msg |-> ReturnTypeMsg(primitive_name)]
  ELSE [err |-> "none", msg |-> <<>>]

\* the except clause of the wrapper: a ValueError or TypeError is raised
\* again with the formatted message, any other exception passes through
wrapper_except(name, kind, msg) ==
  IF kind \in {"ValueError", "TypeError"}
  THEN [err |-> kind, msg |-> format_primitive_error(name, kind, msg)]
  ELSE [err |-> kind, msg |-> msg]

\* the record of a skill lookup and of the invocation that follows it:
\* pc is where it stands, kwargs what the caller passed, checked the
\* argument dict as _check_primitive_args left it, passed what the
\* implementation was called with, nimpl how often it was called, result
\* what it returned, value what the caller got, err and msg the exception
\* that reached the caller, steps the steps taken in order, implerr the
\* kind of exception the implementation raised; flow and got are the
\* flow-wrapped function whose body the invocation was and what the caller
\* of that function got
IdleInv ==
  [pc |-> "idle", self |-> None, name |-> "", kwargs |-> EmptyDict,
   checked |-> EmptyDict, passed |-> EmptyDict, nimpl |-> 0,
   result |-> PyNone, implerr |-> "none", value |-> PyNone,
   err |-> "none", msg |-> <<>>, steps |-> <<>>,
   flow |-> "", got |-> [err |-> "none", val |-> PyNone]]

\* str(e) of the exceptions get_absolute_path ends with
PathErrorMsg(kind) ==
  IF kind = "ValueError" THEN <<"Entity has multiple parents">>
  ELSE <<"maximum recursion depth exceeded">>

\* the text of the AttributeError of __getattr__
UnboundMsg(class, name, path, prims) ==
  <<"'", class, "' object has no attribute '", name,
    "', or this primitive is not bound, available primitives for ">>
  \o path \o <<": ">> \o prims

\* type(self).__name__: entity 1 is the root room
ClassName(e) == IF e = 1 THEN "Room" ELSE "Entity"

\* __getattr__(name) on entity e: the wrapper (err "none") or the exception
\* raised; the text of the AttributeError is built from the entity's path
getattr(e, name) ==
  IF name \in DOMAIN primitive_bindings[e] THEN [err |-> "none", msg |-> <<>>]
  ELSE LET p == get_absolute_path(e) IN
       IF p.err # "none" THEN [err |-> p.err, msg |-> PathErrorMsg(p.err)]
       ELSE [err |-> "AttributeError",
             msg |-> UnboundMsg(ClassName(e), name, p.val, primitives[e])]

\* the wrapper up to the call of the implementation: its first log line
\* computes the entity's path outside the try block, then the arguments
\* are checked inside it
wrapper_enter(e, name, kwargs) ==
  LET p == get_absolute_path(e) IN
  IF p.err # "none" THEN Outcome(p.err, PathErrorMsg(p.err), kwargs)
  ELSE LET a == check_primitive_args(name, kwargs) IN
       IF a.err = "none" THEN a
       ELSE LET x == wrapper_except(name, a.err, a.msg) IN
            Outcome(x.err, x.msg, a.kwargs)

wrapper_impl_raised_swallow(name, kind) == [err |-> "none", msg |-> <<>>]

\* the wrapper after the implementation raised an exception of some kind
wrapper_impl_raised(name, kind) ==
  wrapper_except(name, kind, <<"raised by the implementation">>)

wrapper_leave_coerce(name, result) ==
  LET c == check_primitive_returns(name, result)
      t == try_cast(result, SkillSpecTable[name].output)
  IN
  IF c.err = "none" THEN [err |-> "none", msg |-> <<>>, val |-> result]
  ELSE IF t.err = "none" THEN [err |-> "none", msg |-> <<>>, val |-> t.val]
  ELSE LET x == wrapper_except(name, c.err, c.msg) IN
       [err |-> x.err, msg |-> x.msg, val |-> PyNone]

\* the wrapper after the implementation returned result: the return check,
\* then "return result"
wrapper_leave(name, result) ==
  LET c == check_primitive_returns(name, result) IN
  IF c.err = "none" THEN [err |-> "none", msg |-> <<>>, val |-> result]
  ELSE LET x == wrapper_except(name, c.err, c.msg) IN
       [err |-> x.err, msg |-> x.msg, val |-> PyNone]

\* ------------------------------------------------------- flow wrapper
\* the members of the enumeration EOS_TYPE_FlowResult
EOS_TYPE_FlowResult == {"SUCCESS", "FAILURE", "ABORT"}
FlowResult(member) == PyVal("EOS_TYPE_FlowResult", member)

\* the functions decorated with @flow, by their __name__
FlowFuncs == {"flow_a", "flow_b"}

\* the exception classes derived from Exception, which "except Exception"
\* catches, and those derived from BaseException only
ExceptionKinds ==
  {"ValueError", "TypeError", "RuntimeError", "KeyError", "AttributeError",
   "RecursionError"}
BaseExceptionKinds == {"KeyboardInterrupt"}

\* the kinds of exception a wrapped function raises
FlowRaises == {"ValueError", "RuntimeError", "KeyboardInterrupt"}

\* an exception of some kind with the pieces of the text str(e) gives
RaisedWith(kind, text) == [err |-> kind, val |-> PyNone, text |-> text]

\* what a call of the wrapped function ends with: a value, of the
\* enumeration or not, or an exception
FuncOutcomes ==
  { Returned(FlowResult(m)) : m \in EOS_TYPE_FlowResult }
  \cup { Returned(PyNone), Returned(PyVal("int", "1")) }
  \cup { RaisedWith(k, <<"boom">>) : k \in FlowRaises }

ErrorEntry(func, out) ==
  [level |-> "ERROR",
   msg |-> <<"flow function ", func, " failed: ">> \o out.text]

flow_wrapper_valueerror(func, out) ==
  IF out.err = "none" THEN [out |-> out, log |-> <<>>]
  ELSE IF out.err = "ValueError"
    THEN [out |-> Returned(FlowResult("FAILURE")), log |-> <<ErrorEntry(func, out)>>]
  ELSE [out |-> out, log |-> <<>>]

flow_wrapper_success(func, out) ==
  IF out.err = "none"
    THEN IF out.val.type = "EOS_TYPE_FlowResult" THEN [out |-> out, log |-> <<>>]
         ELSE [out |-> Returned(FlowResult("SUCCESS")), log |-> <<>>]
  ELSE IF out.err \in ExceptionKinds
    THEN [out |-> Returned(FlowResult("FAILURE")), log |-> <<ErrorEntry(func, out)>>]
  ELSE [out |-> out, log |-> <<>>]

\* wrapper(*args, **kwargs) of flow(func), when the call of func ends with
\* out: what the caller of the wrapper gets and what is written to the log
flow_wrapper(func, out) ==
  IF out.err = "none" THEN [out |-> out, log |-> <<>>]
  ELSE IF out.err \in ExceptionKinds
    THEN [out |-> Returned(FlowResult("FAILURE")), log |-> <<ErrorEntry(func, out)>>]
  ELSE [out |-> out, log |-> <<>>]

\* ------------------------------------------------------- flow functions
\* the names a module can define, as inspect.getmembers orders them
MemberNames == <<"alpha", "beta", "gamma">>
MemberKinds == {"function", "class"}

\* an object of a module: what it is, its __name__ and the attributes set
\* on it; Absent stands for a name the module does not define
Absent == [kind |-> "absent", name |-> "", attrs |-> {}]
Defined(kind, name) == [kind |-> kind, name |-> name, attrs |-> {}]
EmptyModule == [i \in 1..Len(MemberNames) |-> Absent]

isfunction(obj) == obj.kind = "function"
hasattr(obj, a) == a \in obj.attrs

\* flow(func): the wrapper function, marked and named after func
flow(func) ==
  [kind |-> "function", name |-> func.name,
   attrs |-> {"_is_flow", "_original_func"}]

\* inspect.getmembers(module): the (name, object) pairs sorted by name
getmembers(module) ==
  SelectSeq([i \in 1..Len(MemberNames) |-> <<MemberNames[i], module[i]>>],
            LAMBDA m : m[2] # Absent)

get_flow_functions_marked(module) ==
  LET f == SelectSeq(getmembers(module), LAMBDA m : hasattr(m[2], "_is_flow"))
  IN [i \in 1..Len(f) |-> f[i][2]]

\* get_flow_functions(module): the objects, in the order of getmembers
get_flow_functions(module) ==
  LET f == SelectSeq(getmembers(module),
                     LAMBDA m : isfunction(m[2]) /\ hasattr(m[2], "_is_flow"))
  IN [i \in 1..Len(f) |-> f[i][2]]

\* no list of flow functions is held
NotCalled == [fresh |-> FALSE, got |-> <<>>]

\* ------------------------------------------------ tool-calling client
\* A text is a sequence of pieces: the call marker, the characters the
\* client searches for, blanks, and words.
Marker == "[FC]"
Whitespace == {" ", "\n"}

\* str.find(c): the 0-based position of the first piece c, or -1
str_find(s, c) ==
  IF InList(c, s)
  THEN (CHOOSE i \in 1..Len(s) : s[i] = c /\ \A j \in 1..(i - 1) : s[j] # c) - 1
  ELSE -1

\* str.rfind(c): the 0-based position of the last piece c, or -1
str_rfind(s, c) ==
  IF InList(c, s)
  THEN (CHOOSE i \in 1..Len(s) : s[i] = c /\ \A j \in (i + 1)..Len(s) : s[j] # c) - 1
  ELSE -1

\* s[a:b] for b >= 0: a negative a counts from the end, both are clipped
str_slice(s, a, b) ==
  LET n == Len(s)
      start == IF a < 0 THEN (IF n + a < 0 THEN 0 ELSE n + a)
               ELSE (IF a > n THEN n ELSE a)
      stop == IF b > n THEN n ELSE b
  IN IF start >= stop THEN <<>> ELSE SubSeq(s, start + 1, stop)

\* str.split(sep): the parts between the separators, empty parts included
RECURSIVE str_split(_, _)
str_split(s, sep) ==
  LET i == str_find(s, sep)
  IN IF i = -1 THEN <<s>>
     ELSE <<str_slice(s, 0, i)>> \o str_split(str_slice(s, i + 1, Len(s)), sep)

\* str.strip(chars): drops the leading and trailing pieces that are in chars
RECURSIVE str_strip(_, _)
str_strip(s, chars) ==
  IF s = <<>> THEN s
  ELSE IF Head(s) \in chars THEN str_strip(Tail(s), chars)
  ELSE IF s[Len(s)] \in chars THEN str_strip(SubSeq(s, 1, Len(s) - 1), chars)
  ELSE s

\* def judge_tool_call(content): some line of the content holds the marker
judge_tool_call(content) ==
  LET content_split == str_split(content, "\n")
  IN \E i \in 1..Len(content_split) : InList(Marker, content_split[i])

\* args_dict[key] = value: a dict as its items in insertion order; a key
\* that is already there keeps its place and takes the new value
dict_set(d, key, value) ==
  IF \E i \in 1..Len(d) : d[i][1] = key
  THEN [i \in 1..Len(d) |-> IF d[i][1] = key THEN <<key, value>> ELSE d[i]]
  ELSE Append(d, <<key, value>>)

Parsed(v) == [err |-> "none", val |-> v]
ParseRaised(kind) == [err |-> kind, val |-> <<>>]

\* the loop over args_list: key, value = arg.split("=") raises ValueError
\* unless the split gives exactly two parts
RECURSIVE parse_args(_, _)
parse_args(args_list, args_dict) ==
  IF args_list = <<>> THEN Parsed(args_dict)
  ELSE LET kv == str_split(Head(args_list), "=")
       IN IF Len(kv) # 2 THEN ParseRaised("ValueError")
          ELSE parse_args(Tail(args_list),
                 dict_set(args_dict, str_strip(kv[1], Whitespace),
                          str_strip(str_strip(kv[2], Whitespace), {"'"})))

\* the body of the loop of tool_calls_format for a line i that holds the
\* marker: [1] of a split that gave one part raises IndexError
parse_call(i) ==
  LET by_colon == str_split(i, ":")
      by_paren == str_split(i, "(")
  IN IF Len(by_colon) < 2 THEN ParseRaised("IndexError")
     ELSE IF Len(by_paren) < 2 THEN ParseRaised("IndexError")
     ELSE
       LET funcName == str_strip(str_split(by_colon[2], "(")[1], Whitespace)
           args_str == str_strip(str_split(by_paren[2], ")")[1], Whitespace)
           args == IF args_str # <<>>
                   THEN parse_args(str_split(args_str, ","), <<>>)
                   ELSE Parsed(<<>>)
       IN IF args.err # "none" THEN args
          ELSE Parsed([name |-> funcName, args |-> args.val])

RECURSIVE format_lines(_, _)
format_lines(tools_split, tool_calls) ==
  IF tools_split = <<>> THEN Parsed(tool_calls)
  ELSE IF ~InList(Marker, Head(tools_split))
       THEN format_lines(Tail(tools_split), tool_calls)
  ELSE LET call == parse_call(Head(tools_split))
       IN IF call.err # "none" THEN call
          ELSE format_lines(Tail(tools_split), Append(tool_calls, call.val))

\* def tool_calls_format(tool_calls_str): one call per line with the marker
tool_calls_format(tool_calls_str) ==
  format_lines(str_split(tool_calls_str, "\n"), <<>>)

\* content[content.find("{"):content.rfind("}") + 1], the text the loop of
\* process_query hands to tool_calls_format
braced(content) ==
  str_slice(content, str_find(content, "{"), str_rfind(content, "}") + 1)

\* ------------------------------------------- inputs of the invocations
F1 == PyVal("float", "1.0")
I1 == PyVal("int", "1")
S15 == PyVal("str", "1.5")
Sabc == PyVal("str", "abc")
BTrue == PyVal("bool", "True")

\* the keyword arguments a caller passes
KwargsPool ==
  { EmptyDict,
    [x |-> F1, y |-> F1, z |-> F1],
    [x |-> I1, y |-> F1, z |-> F1],
    [x |-> F1, y |-> S15, z |-> I1],
    [x |-> F1, y |-> Sabc, z |-> F1],
    [x |-> I1, y |-> F1, z |-> PyNone],
    [x |-> F1, y |-> F1],
    [x |-> F1, y |-> F1, z |-> F1, w |-> F1],
    [target |-> PyDict([x |-> F1, y |-> F1])],
    [target |-> PyDict([x |-> I1, y |-> F1])],
    [target |-> PyDict([x |-> F1, y |-> F1, w |-> F1])],
    [target |-> PyDict([x |-> F1])],
    [target |-> PyDict([x |-> Sabc, y |-> F1])],
    [target |-> F1] }

\* the values an implementation returns
ReturnPool ==
  { PyDict([x |-> F1, y |-> F1, z |-> F1]),
    PyDict([x |-> I1, y |-> F1, z |-> F1]),
    PyDict([x |-> F1, y |-> F1]),
    PyDict([x |-> F1, y |-> F1, z |-> F1, w |-> F1]),
    PyDict([success |-> BTrue]),
    PyDict([success |-> I1]),
    PyNone }

\* the kinds of exception an implementation raises
ImplRaises == {"ValueError", "TypeError", "RuntimeError", "KeyboardInterrupt"}

\* what a call of an implementation ends with
ImplOutcomes ==
  { Returned(v) : v \in ReturnPool } \cup { Raised(k) : k \in ImplRaises }

\* the names looked up on an entity
AttrNames == EOS_SKILL_SPECS \cup {"c_not_registered"}

\* the bind_skill calls of the graph construction, in order
GraphBindings ==
  << [self |-> 2, name |-> "c_space_getpos", func |-> "impl_a"],
     [self |-> 3, name |-> "c_space_getpos", func |-> "impl_b"],
     [self |-> 3, name |-> "c_space_move", func |-> "impl_a"],
     [self |-> 3, name |-> "c_space_goto", func |-> "impl_b"] >>

\* the values and shapes the matchers and the caster are called with
Point(x) == PyObject("Point", [x |-> x])
ValuePool ==
  { I1, PyVal("int", "2"), F1, PyVal("float", "1.5"), BTrue, S15, Sabc, PyNone,
    PyVal("Color", "RED"),
    PyDict([x |-> F1]), PyDict([x |-> I1]), PyDict([x |-> F1, y |-> I1]),
    PyDict(EmptyDict),
    PyList(<<>>), PyList(<<I1, I1>>), PyList(<<I1, Sabc>>),
    PyTuple(<<F1, F1>>), PyTuple(<<F1>>), PyTuple(<<F1, Sabc>>),
    Point(F1), Point(Sabc) }

XFloat == DictShape(<< <<"x", TypeShape("float")>> >>)
PointShape == DataclassShape("Point", << <<"x", TypeShape("float")>> >>)
ShapePool ==
  { TypeShape("int"), TypeShape("float"), TypeShape("bool"),
    EnumShape("Color"), XFloat,
    DictShape(<< <<"x", AnyShape>> >>),
    DictShape(<< <<"x", TypeShape("int")>>, <<"y", AnyShape>> >>),
    ListShape(TypeShape("int")), TupleShape(<<TypeShape("float"), TypeShape("float")>>),
    AnyShape, DictOfShape, PointShape,
    AltShape(<<TypeShape("int"), TypeShape("float")>>),
    AltShape(<<TypeShape("float"), TypeShape("int")>>),
    AltShape(<<EnumShape("Color"), TypeShape("float")>>),
    AltShape(<<XFloat, TypeShape("float")>>),
    AltShape(<<ListShape(TypeShape("int")), TypeShape("int")>>),
    AltShape(<<PointShape, EnumShape("Color")>>) }

\* no matcher or caster call made yet
NoProbe ==
  [op |-> "none", value |-> PyNone, shape |-> AnyShape,
   input |-> Raised("none"), output |-> Raised("none"), cast |-> Raised("none")]

\* the paths get_entity_by_path is called with, frame by frame
WalkPaths == { <<>>, <<"a">>, <<"/", "a", "/", "a">>, <<"a", "/", "b">> }

\* no path call made yet: op is the operation, pc where it stands, self the
\* entity it was called on, cur the entity of the current frame or loop
\* round, depth the number of frames, acc the part of the path after cur's
\* name, segs the segments left, scan the children left to compare, out the
\* path or error get_absolute_path ends with, ent what get_entity_by_path
\* returns
NoWalk ==
  [op |-> "none", pc |-> "idle", self |-> None, cur |-> None, depth |-> 0,
   acc |-> <<>>, segs |-> <<>>, scan |-> <<>>,
   out |-> [err |-> "none", val |-> <<>>], ent |-> None]

\* the names MCPClient.tool_session_map has a session for
ToolNames == { <<"move">>, <<"stop">> }

\* the texts the model answers with: no marker; one call between braces;
\* two calls between braces; a call with no braces around it; a call after
\* the closing brace; a marker line with no colon; an argument with no "=";
\* a call of a tool that no session offers
PlainText == <<"done">>
BracedCall ==
  <<"{", "\n", "[FC]", ":", "move", "(", "x", "=", "1", ")", "\n", "}">>
BracedCalls ==
  <<"{", "[FC]", ":", " ", "move", "(", "x", "=", "'", "1", "'", ",", " ",
    "x", "=", "2", ")", "\n", "[FC]", ":", "stop", "(", ")", "}">>
BareCall == <<"[FC]", ":", "move", "(", "x", "=", "1", ")">>
CallAfterBraces ==
  <<"{", "}", "\n", "[FC]", ":", "stop", "(", ")">>
MarkerOnly == <<"{", "[FC]", " ", "move", "}">>
ArgWithoutValue == <<"{", "[FC]", ":", "move", "(", "x", ")", "}">>
UnknownTool == <<"{", "[FC]", ":", "fly", "(", ")", "}">>
ContentPool ==
  { PlainText, BracedCall, BracedCalls, BareCall, CallAfterBraces,
    MarkerOnly, ArgWithoutValue, UnknownTool }

\* no query processed yet: pc is where process_query stands, content the
\* current response, tool_calls the calls parsed for the current round of
\* the while loop, k how many of them the for loop has been through,
\* tool_results the tools called so far, requests the completions asked
\* for so far, out the returned text, err the exception the call ended with
NoQuery ==
  [pc |-> "idle", content |-> <<>>, tool_calls |-> <<>>, k |-> 0,
   tool_results |-> <<>>, requests |-> 0, out |-> <<>>, err |-> "none"]

\* ------------------------------------------------------------- actions
RECURSIVE SumLen(_, _)
SumLen(rels, n) ==
  IF n = 0 THEN 0
  ELSE Len(rels[n]["parent_of"]) + Len(rels[n]["child_of"]) + SumLen(rels, n - 1)

\* the relation lists hold at most MaxRel parent/child pairs
WithinRel(rels) == SumLen(rels, NumEntities) <= 2 * MaxRel

RelationCall(op, s, t, r) ==
  /\ WithinRel(r.rels)
  /\ relations' = r.rels
  /\ last' = [op |-> op, self |-> s, other |-> t, err |-> r.err]
  /\ UNCHANGED <<entity_name, primitives, primitive_bindings, calls,
                 inv, flow_calls, log, others>>

AddParent(s, p) == RelationCall("add_parent", s, p, add_parent(relations, s, p))

AddChild(s, c) == RelationCall("add_child", s, c, add_child(relations, s, c))

RemoveParent(s, p) ==
  RelationCall("remove_parent", s, p, remove_parent(relations, s, p))

RemoveChild(s, c) ==
  RelationCall("remove_child", s, c, remove_child(relations, s, c))

InitOthers ==
  /\ members = EmptyModule
  /\ found = NotCalled
  /\ probe = NoProbe
  /\ first_added = <<>>
  /\ walk = NoWalk
  /\ manager =
       [relations |-> [e \in Entities |-> [parent_of |-> <<>>, child_of |-> <<>>]],
        last |-> [op |-> "init", self |-> None, other |-> None, err |-> "none"]]
  /\ client = NoQuery

Init ==
  /\ entity_name \in [Entities -> NamePool \cup {RootName}]
  /\ entity_name[1] = RootName
  /\ \A e \in Entities \ {1} : entity_name[e] \in NamePool
  /\ relations = [e \in Entities |-> [parent_of |-> <<>>, child_of |-> <<>>]]
  /\ primitives = [e \in Entities |-> <<>>]
  /\ primitive_bindings = [e \in Entities |-> EmptyDict]
  /\ last = [op |-> "init", self |-> None, other |-> None, err |-> "none"]
  /\ calls = <<>>
  /\ inv = IdleInv
  /\ flow_calls = <<>>
  /\ log = <<>>
  /\ InitOthers

\* every entity but the root room was created with the name "a"
InitFixed ==
  /\ Init
  /\ \A e \in Entities \ {1} : entity_name[e] = <<"a">>

Next ==
  \/ \E s \in Entities, p \in Entities : AddParent(s, p)
  \/ \E s \in Entities, c \in Entities : AddChild(s, c)
  \/ \E s \in Entities, p \in Entities : RemoveParent(s, p)
  \/ \E s \in Entities, c \in Entities : RemoveChild(s, c)

\* the relation calls and how each ended, on entities of fixed names
Spec == InitFixed /\ [][Next]_vars

\* the relation calls on entities of any names, for the path operations
RelationStep(r) ==
  /\ WithinRel(r.rels)
  /\ relations' = r.rels
  /\ UNCHANGED <<entity_name, primitives, primitive_bindings, last, calls,
                 inv, flow_calls, log, others>>

PathAddParent(s, p) == RelationStep(add_parent(relations, s, p))

PathAddChild(s, c) == RelationStep(add_child(relations, s, c))

PathRemoveParent(s, p) == RelationStep(remove_parent(relations, s, p))

PathRemoveChild(s, c) == RelationStep(remove_child(relations, s, c))

NextPath ==
  \/ \E s \in Entities, p \in Entities : PathAddParent(s, p)
  \/ \E s \in Entities, c \in Entities : PathAddChild(s, c)
  \/ \E s \in Entities, p \in Entities : PathRemoveParent(s, p)
  \/ \E s \in Entities, c \in Entities : PathRemoveChild(s, c)

SpecPath == Init /\ [][NextPath]_vars

\* skill binding on a graph whose entities were just created
BindSkill(e, primitive_name, func) ==
  LET r == bind_skill(primitives[e], primitive_bindings[e], primitive_name, func) IN
  /\ Len(calls) < MaxCalls
  /\ primitives' = [primitives EXCEPT ![e] = r.primitives]
  /\ primitive_bindings' = [primitive_bindings EXCEPT ![e] = r.primitive_bindings]
  /\ calls' = Append(calls, [self |-> e, name |-> primitive_name,
                             func |-> func, err |-> r.err])
  /\ UNCHANGED <<entity_name, relations, last, inv, flow_calls, log, others>>

NextSkill ==
  \E e \in Entities, n \in SkillNames, f \in Impls : BindSkill(e, n, f)

SpecSkill == InitFixed /\ [][NextSkill]_vars

\* the graph after its construction: the root room, entity 2 in it and
\* entity 3 in entity 2, with the skills of GraphBindings bound
RECURSIVE BindAll(_, _, _)
BindAll(prims, binds, todo) ==
  IF todo = <<>> THEN [primitives |-> prims, primitive_bindings |-> binds]
  ELSE LET c == Head(todo)
           r == bind_skill(prims[c.self], binds[c.self], c.name, c.func)
       IN BindAll([prims EXCEPT ![c.self] = r.primitives],
                  [binds EXCEPT ![c.self] = r.primitive_bindings], Tail(todo))

InitBound ==
  LET r0 == [e \in Entities |-> [parent_of |-> <<>>, child_of |-> <<>>]]
      r1 == add_child(r0, 1, 2).rels
      r2 == add_child(r1, 2, 3).rels
      b == BindAll([e \in Entities |-> <<>>], [e \in Entities |-> EmptyDict],
                   GraphBindings)
  IN
  /\ entity_name = [e \in Entities |-> IF e = 1 THEN RootName ELSE <<"a">>]
  /\ relations = r2
  /\ primitives = b.primitives
  /\ primitive_bindings = b.primitive_bindings
  /\ last = [op |-> "init", self |-> None, other |-> None, err |-> "none"]
  /\ calls = [i \in 1..Len(GraphBindings) |->
                [self |-> GraphBindings[i].self, name |-> GraphBindings[i].name,
                 func |-> GraphBindings[i].func, err |-> "none"]]
  /\ inv = IdleInv
  /\ flow_calls = <<>>
  /\ log = <<>>
  /\ InitOthers

InvUnchanged ==
  UNCHANGED <<entity_name, relations, primitives, primitive_bindings, last,
              calls, flow_calls, log, others>>

\* entity.<name>: the attribute lookup of a skill
GetAttr(e, name) ==
  LET r == getattr(e, name) IN
  /\ inv.pc \in {"idle", "wrapper", "returned", "raised"}
  /\ inv' = [IdleInv EXCEPT !.pc = IF r.err = "none" THEN "wrapper" ELSE "raised",
                            !.self = e, !.name = name,
                            !.err = r.err, !.msg = r.msg]
  /\ InvUnchanged

\* wrapper(**kwargs), up to the call of the implementation
CheckArgs(kwargs) ==
  LET r == wrapper_enter(inv.self, inv.name, kwargs) IN
  /\ inv.pc = "wrapper"
  /\ inv' = IF r.err = "none"
            THEN [inv EXCEPT !.pc = "args_checked", !.kwargs = kwargs,
                             !.checked = r.kwargs,
                             !.steps = Append(@, "check_args")]
            ELSE [inv EXCEPT !.pc = "raised", !.kwargs = kwargs,
                             !.err = r.err, !.msg = r.msg,
                             !.steps = Append(@, "check_args")]
  /\ InvUnchanged

CallImpl_unchecked(out) ==
  /\ inv.pc \in {"wrapper", "args_checked"}
  /\ inv' = IF out.err = "none"
            THEN [inv EXCEPT !.pc = "impl_returned", !.nimpl = @ + 1,
                             !.passed = inv.checked,
                             !.result = out.val, !.steps = Append(@, "impl")]
            ELSE LET x == wrapper_impl_raised(inv.name, out.err) IN
                 [inv EXCEPT !.pc = "raised", !.nimpl = @ + 1,
                             !.passed = inv.checked, !.implerr = out.err,
                             !.err = x.err, !.msg = x.msg,
                             !.steps = Append(@, "impl")]
  /\ InvUnchanged

\* the call of the bound implementation, which returns a value or raises
CallImpl(out) ==
  /\ inv.pc = "args_checked"
  /\ inv' = IF out.err = "none"
            THEN [inv EXCEPT !.pc = "impl_returned", !.nimpl = @ + 1,
                             !.passed = inv.checked,
                             !.result = out.val, !.steps = Append(@, "impl")]
            ELSE LET x == wrapper_impl_raised(inv.name, out.err) IN
                 [inv EXCEPT !.pc = "raised", !.nimpl = @ + 1,
                             !.passed = inv.checked, !.implerr = out.err,
                             !.err = x.err, !.msg = x.msg,
                             !.steps = Append(@, "impl")]
  /\ InvUnchanged

\* the rest of the wrapper after the implementation returned
CheckReturns ==
  LET r == wrapper_leave(inv.name, inv.result) IN
  /\ inv.pc = "impl_returned"
  /\ inv' = IF r.err = "none"
            THEN [inv EXCEPT !.pc = "returned", !.value = r.val,
                             !.steps = Append(@, "check_returns")]
            ELSE [inv EXCEPT !.pc = "raised", !.err = r.err, !.msg = r.msg,
                             !.steps = Append(@, "check_returns")]
  /\ InvUnchanged

NextInvoke ==
  \/ \E e \in Entities, n \in AttrNames : GetAttr(e, n)
  \/ \E k \in KwargsPool : CheckArgs(k)
  \/ \E out \in ImplOutcomes : CallImpl(out)
  \/ CheckReturns

\* skill invocations on the constructed graph
SpecInvoke == InitBound /\ [][NextInvoke]_vars

NextAttr ==
  \/ \E s \in Entities, p \in Entities : PathAddParent(s, p)
  \/ \E s \in Entities, c \in Entities : PathAddChild(s, c)
  \/ \E s \in Entities, p \in Entities : PathRemoveParent(s, p)
  \/ \E s \in Entities, c \in Entities : PathRemoveChild(s, c)
  \/ \E e \in Entities, n \in AttrNames : GetAttr(e, n)

\* skill lookups while the relations of the constructed graph change
SpecAttr == InitBound /\ [][NextAttr]_vars

\* a call of a flow-wrapped function, in which the function does did
FlowCall(func, did) ==
  LET r == flow_wrapper(func, did) IN
  /\ Len(flow_calls) < MaxCalls
  /\ flow_calls' = Append(flow_calls, [func |-> func, did |-> did, got |-> r.out])
  /\ log' = log \o r.log
  /\ UNCHANGED <<entity_name, relations, primitives, primitive_bindings, last,
                 calls, inv, others>>

NextFlow ==
  \E f \in FlowFuncs, did \in FuncOutcomes : FlowCall(f, did)

\* calls of flow-wrapped functions
SpecFlow == InitFixed /\ [][NextFlow]_vars

\* the flow-wrapped function whose body is a skill lookup and invocation
BodyFlow == "flow_a"

\* the end of a call of a flow-wrapped function whose body is the skill
\* lookup and invocation of inv
FlowEnd(func) ==
  LET did == IF inv.pc = "raised" THEN RaisedWith(inv.err, inv.msg)
             ELSE Returned(inv.value)
      r == flow_wrapper(func, did)
  IN
  /\ inv.pc \in {"raised", "returned"}
  /\ inv.flow = ""
  /\ Len(log) + Len(r.log) <= MaxLog
  /\ inv' = [inv EXCEPT !.flow = func, !.got = r.out]
  /\ log' = log \o r.log
  /\ UNCHANGED <<entity_name, relations, primitives, primitive_bindings, last,
                 calls, flow_calls, others>>

NextFlowInvoke ==
  \/ \E e \in Entities, n \in AttrNames : GetAttr(e, n)
  \/ \E k \in KwargsPool : CheckArgs(k)
  \/ \E out \in ImplOutcomes : CallImpl(out)
  \/ CheckReturns
  \/ FlowEnd(BodyFlow)

\* skill invocations made directly and as the body of flow-wrapped functions
SpecFlowInvoke == InitBound /\ [][NextFlowInvoke]_vars

\* a def or class statement binds the i-th name of the module
DefineMember(i, kind) ==
  /\ members' = [members EXCEPT ![i] = Defined(kind, MemberNames[i])]
  /\ found' = NotCalled
  /\ UNCHANGED exceptModule

\* the decorator: name = flow(name)
Decorate(i) ==
  /\ members[i] # Absent
  /\ members' = [members EXCEPT ![i] = flow(@)]
  /\ found' = NotCalled
  /\ UNCHANGED exceptModule

\* obj._is_flow = ... set by hand on a member
SetMarker(i) ==
  /\ members[i] # Absent
  /\ members' = [members EXCEPT ![i].attrs = @ \cup {"_is_flow"}]
  /\ found' = NotCalled
  /\ UNCHANGED exceptModule

\* del of a member
DeleteMember(i) ==
  /\ members[i] # Absent
  /\ members' = [members EXCEPT ![i] = Absent]
  /\ found' = NotCalled
  /\ UNCHANGED exceptModule

GetFlowFunctions ==
  /\ found' = [fresh |-> TRUE, got |-> get_flow_functions(members)]
  /\ UNCHANGED <<exceptModule, members>>

NextModule ==
  \/ \E i \in 1..Len(MemberNames), k \in MemberKinds : DefineMember(i, k)
  \/ \E i \in 1..Len(MemberNames) : Decorate(i)
  \/ \E i \in 1..Len(MemberNames) : SetMarker(i)
  \/ \E i \in 1..Len(MemberNames) : DeleteMember(i)
  \/ GetFlowFunctions

\* a module whose members are defined, decorated and marked, and the calls
\* of get_flow_functions on it
SpecModule == InitFixed /\ [][NextModule]_vars

\* one value checked against one shape by the matcher of the arguments and
\* by the matcher of the return values
MatchProbe(value, shape) ==
  /\ probe' = [NoProbe EXCEPT !.op = "match", !.value = value, !.shape = shape,
                 !.input = is_type_match(value, shape),
                 !.output = recursive_type_check(value, shape)]
  /\ UNCHANGED exceptMatch

\* one value cast to one shape
CastProbe(value, shape) ==
  /\ probe' = [NoProbe EXCEPT !.op = "cast", !.value = value, !.shape = shape,
                 !.cast = try_cast(value, shape)]
  /\ UNCHANGED exceptMatch

NextMatch ==
  \/ \E v \in ValuePool, t \in ShapePool : MatchProbe(v, t)
  \/ \E v \in ValuePool, t \in ShapePool : CastProbe(v, t)

\* the matchers and the caster applied to values and shapes of every kind
SpecMatch == InitFixed /\ [][NextMatch]_vars

\* a relation call that makes c a child of s or takes it away, with the
\* record of the children entity 1 was ever given, in the order of the first
\* time each was added
OrderCall(op, s, c, r) ==
  /\ WithinRel(r.rels)
  /\ relations' = r.rels
  /\ last' = [op |-> op, self |-> IF op \in {"add_child", "remove_child"}
                                  THEN s ELSE c,
              other |-> IF op \in {"add_child", "remove_child"} THEN c ELSE s,
              err |-> r.err]
  /\ first_added' =
       IF op \in {"add_child", "add_parent"} /\ r.err = "none" /\ s = 1
          /\ ~InList(c, first_added)
       THEN Append(first_added, c)
       ELSE first_added
  /\ UNCHANGED <<entity_name, primitives, primitive_bindings, calls,
                 inv, flow_calls, log, moduleVars, matchVars, walkVars,
                 managerVars, clientVars>>

OrderAddChild(s, c) == OrderCall("add_child", s, c, add_child(relations, s, c))
OrderAddParent(c, s) == OrderCall("add_parent", s, c, add_parent(relations, c, s))
OrderRemoveChild(s, c) ==
  OrderCall("remove_child", s, c, remove_child(relations, s, c))
OrderRemoveParent(c, s) ==
  OrderCall("remove_parent", s, c, remove_parent(relations, c, s))

\* the entities that are given children
OrderParents == {1, 2}

NextOrder ==
  \/ \E s \in OrderParents, c \in Entities : OrderAddChild(s, c)
  \/ \E s \in OrderParents, c \in Entities : OrderAddParent(c, s)
  \/ \E s \in OrderParents, c \in Entities : OrderRemoveChild(s, c)
  \/ \E s \in OrderParents, c \in Entities : OrderRemoveParent(c, s)

\* the relation calls, with the order of the first additions recorded
SpecOrder == InitFixed /\ [][NextOrder]_vars

\* the relation calls that build the graph before a path call is made
WalkRelation ==
  /\ walk.pc = "idle"
  /\ \E s \in Entities, t \in Entities :
       \/ PathAddParent(s, t)
       \/ PathAddChild(s, t)
       \/ PathRemoveParent(s, t)
       \/ PathRemoveChild(s, t)

\* e.get_absolute_path() is called
PathStart(e) ==
  /\ walk.pc \in {"idle", "done"}
  /\ walk' = [NoWalk EXCEPT !.op = "get_absolute_path", !.pc = "frame",
                            !.self = e, !.cur = e, !.depth = 1]
  /\ UNCHANGED exceptWalk

PathFrame_nodepth ==
  LET parent == get_parent(walk.cur)
      here == entity_name[walk.cur] \o walk.acc
  IN
  /\ walk.op = "get_absolute_path" /\ walk.pc = "frame"
  /\ walk' =
       IF parent.err # "none"
         THEN [walk EXCEPT !.pc = "done", !.out = [err |-> parent.err, val |-> <<>>]]
       ELSE IF parent.val = None
         THEN [walk EXCEPT !.pc = "done", !.out = [err |-> "none", val |-> here]]
       ELSE [walk EXCEPT !.cur = parent.val]
  /\ UNCHANGED exceptWalk

\* one frame of get_absolute_path: it returns, raises, or calls
\* parent.get_absolute_path(), which the interpreter refuses with
\* RecursionError beyond its recursion limit
PathFrame ==
  LET parent == get_parent(walk.cur)
      here == entity_name[walk.cur] \o walk.acc
      done(err, val) ==
        [walk EXCEPT !.pc = "done", !.out = [err |-> err, val |-> val]]
  IN
  /\ walk.op = "get_absolute_path" /\ walk.pc = "frame"
  /\ walk' =
       IF walk.depth > RecursionLimit THEN done("RecursionError", <<>>)
       ELSE IF parent.err # "none" THEN done(parent.err, <<>>)
       ELSE IF parent.val = None THEN done("none", here)
       ELSE LET r == is_root(parent.val) IN
            IF r.err # "none" THEN done(r.err, <<>>)
            ELSE IF r.val THEN done("none", <<"/">> \o here)
            ELSE [walk EXCEPT !.cur = parent.val, !.depth = @ + 1,
                              !.acc = <<"/">> \o here]
  /\ UNCHANGED exceptWalk

\* e.get_entity_by_path(path) is called: the path is split
ResolveStart(e, path) ==
  LET path_split == SelectSeq(split(strip(path)), NonEmpty) IN
  /\ walk.pc \in {"idle", "done"}
  /\ walk' =
       IF path_split = <<>>
       THEN [NoWalk EXCEPT !.op = "get_entity_by_path", !.pc = "done",
                           !.self = e, !.cur = e, !.ent = e]
       ELSE [NoWalk EXCEPT !.op = "get_entity_by_path", !.pc = "segment",
                           !.self = e, !.cur = e, !.segs = path_split]
  /\ UNCHANGED exceptWalk

\* one round of the loop over the segments
ResolveSegment ==
  /\ walk.op = "get_entity_by_path" /\ walk.pc = "segment"
  /\ walk' =
       IF walk.segs = <<>>
       THEN [walk EXCEPT !.pc = "done", !.ent = walk.cur]
       ELSE [walk EXCEPT !.pc = "scan", !.scan = get_children(walk.cur)]
  /\ UNCHANGED exceptWalk

\* one round of the loop over the children
ResolveScan ==
  /\ walk.op = "get_entity_by_path" /\ walk.pc = "scan"
  /\ walk' =
       IF walk.scan = <<>>
       THEN [walk EXCEPT !.pc = "done", !.ent = None]
       ELSE IF entity_name[Head(walk.scan)] = Head(walk.segs)
       THEN [walk EXCEPT !.pc = "segment", !.cur = Head(walk.scan),
                         !.segs = Tail(@), !.scan = <<>>]
       ELSE [walk EXCEPT !.scan = Tail(@)]
  /\ UNCHANGED exceptWalk

WalkStep == PathFrame \/ ResolveSegment \/ ResolveScan

NextWalk ==
  \/ WalkRelation
  \/ \E e \in Entities : PathStart(e)
  \/ \E e \in Entities, path \in WalkPaths : ResolveStart(e, path)
  \/ PathFrame
  \/ ResolveSegment
  \/ ResolveScan

\* the path calls run frame by frame on the graphs the relation calls
\* build; a call that was made keeps running, the program being one thread
SpecWalk == InitFixed /\ [][NextWalk]_vars /\ WF_vars(WalkStep)

\* the entities whose skill list is changed by hand
PrimEntities == {2}

\* bind_skill, add_primitive and remove_primitive called in any order
PrimBind(e, primitive_name, func) ==
  LET r == bind_skill(primitives[e], primitive_bindings[e], primitive_name, func) IN
  /\ primitives' = [primitives EXCEPT ![e] = r.primitives]
  /\ primitive_bindings' = [primitive_bindings EXCEPT ![e] = r.primitive_bindings]
  /\ UNCHANGED <<entity_name, relations, last, calls, inv, flow_calls, log,
                 others>>

AddPrimitive(e, primitive) ==
  /\ primitives' = [primitives EXCEPT ![e] = add_primitive(@, primitive)]
  /\ UNCHANGED <<entity_name, relations, primitive_bindings, last, calls, inv,
                 flow_calls, log, others>>

RemovePrimitive(e, primitive) ==
  /\ primitives' = [primitives EXCEPT ![e] = remove_primitive(@, primitive)]
  /\ UNCHANGED <<entity_name, relations, primitive_bindings, last, calls, inv,
                 flow_calls, log, others>>

NextPrimitives ==
  \/ \E e \in PrimEntities, n \in SkillNames, f \in Impls : PrimBind(e, n, f)
  \/ \E e \in PrimEntities, n \in SkillNames : AddPrimitive(e, n)
  \/ \E e \in PrimEntities, n \in SkillNames : RemovePrimitive(e, n)

SpecPrimitives == InitFixed /\ [][NextPrimitives]_vars

\* one relation call made on the entities of both modules
TwinCall(op, s, t, r, m) ==
  /\ WithinRel(r.rels)
  /\ relations' = r.rels
  /\ last' = [op |-> op, self |-> s, other |-> t, err |-> r.err]
  /\ manager' = [relations |-> m.rels,
                 last |-> [op |-> op, self |-> s, other |-> t, err |-> m.err]]
  /\ UNCHANGED <<entity_name, primitives, primitive_bindings, calls,
                 inv, flow_calls, log, moduleVars, matchVars, orderVars,
                 walkVars, clientVars>>

TwinAddParent(s, p) ==
  TwinCall("add_parent", s, p, add_parent(relations, s, p),
           manager_add_parent(manager.relations, s, p))
TwinAddChild(s, c) ==
  TwinCall("add_child", s, c, add_child(relations, s, c),
           manager_add_child(manager.relations, s, c))
TwinRemoveParent(s, p) ==
  TwinCall("remove_parent", s, p, remove_parent(relations, s, p),
           manager_remove_parent(manager.relations, s, p))
TwinRemoveChild(s, c) ==
  TwinCall("remove_child", s, c, remove_child(relations, s, c),
           manager_remove_child(manager.relations, s, c))

NextTwin ==
  \/ \E s \in Entities, p \in Entities : TwinAddParent(s, p)
  \/ \E s \in Entities, c \in Entities : TwinAddChild(s, c)
  \/ \E s \in Entities, p \in Entities : TwinRemoveParent(s, p)
  \/ \E s \in Entities, c \in Entities : TwinRemoveChild(s, c)

\* the same relation calls made on entities of the uapi module and on
\* entities of the manager module that were created with the same names
SpecTwin == InitFixed /\ [][NextTwin]_vars

\* process_query up to its while loop: the first completion is the content
ProcessQuery(reply) ==
  /\ client.pc \in {"idle", "done", "raised"}
  /\ client' = [NoQuery EXCEPT !.pc = "while", !.content = reply,
                               !.requests = 1]
  /\ UNCHANGED exceptClient

\* the test of the while loop and, when it passes, the parse that opens the
\* round; when it fails the content is the returned text
while_test(c) ==
  IF ~judge_tool_call(c.content)
  THEN [c EXCEPT !.pc = "done", !.out = c.content]
  ELSE LET parsed == tool_calls_format(braced(c.content))
       IN IF parsed.err # "none"
          THEN [c EXCEPT !.pc = "raised", !.err = parsed.err]
          ELSE [c EXCEPT !.pc = "for", !.tool_calls = parsed.val, !.k = 0]

WhileTest ==
  /\ client.pc = "while"
  /\ client' = while_test(client)
  /\ UNCHANGED exceptClient

\* one step of "for tool in tool_calls": the next call is looked up, made,
\* and the next completion becomes the content; with no call left control
\* is back at the test of the while loop
for_step(c, reply) ==
  IF c.k = Len(c.tool_calls) THEN [c EXCEPT !.pc = "while"]
  ELSE LET tool == c.tool_calls[c.k + 1]
       IN IF tool.name \notin ToolNames
          THEN [c EXCEPT !.pc = "raised", !.err = "KeyError"]
          ELSE [c EXCEPT !.k = @ + 1,
                         !.tool_results = Append(@, tool),
                         !.content = reply,
                         !.requests = @ + 1]

ForStep(reply) ==
  /\ client.pc = "for"
  /\ Len(for_step(client, reply).tool_results) <= MaxCalls
  /\ client' = for_step(client, reply)
  /\ UNCHANGED exceptClient

NextQuery ==
  \/ \E reply \in ContentPool : ProcessQuery(reply)
  \/ WhileTest
  \/ \E reply \in ContentPool : ForStep(reply)

\* queries processed one after the other, as chat_loop makes them
SpecQuery == InitFixed /\ [][NextQuery]_vars

\* ------------------------------------------------ vocabulary of the claims
Parents(e) == relations[e]["parent_of"]
Children(e) == relations[e]["child_of"]
ChildSet(e) == { Children(e)[i] : i \in 1..Len(Children(e)) }

\* the entities reached from the set S by following child links
RECURSIVE ReachFrom(_, _)
ReachFrom(S, k) ==
  IF k = 0 THEN S
  ELSE ReachFrom(S \cup UNION { ChildSet(x) : x \in S }, k - 1)

\* E is reached from R by one or more child links
Below(R, E) == E \in ReachFrom(ChildSet(R), NumEntities)

\* The chain (root, e1, ..., en = e) in which every entity's only parent is
\* its predecessor and the root has none; <<>> when some entity on the way
\* up has several parents or the way up never ends.
RECURSIVE ChainTo(_, _)
ChainTo(e, k) ==
  IF Len(Parents(e)) = 0 THEN <<e>>
  ELSE IF Len(Parents(e)) > 1 \/ k = 0 THEN <<>>
  ELSE LET c == ChainTo(Parents(e)[1], k - 1) IN
       IF c = <<>> THEN <<>> ELSE Append(c, e)

\* "/" name(c[i]) "/" name(c[i+1]) ... for the entities of c from i on
RECURSIVE SlashJoin(_, _)
SlashJoin(c, i) ==
  IF i > Len(c) THEN <<>>
  ELSE <<"/">> \o entity_name[c[i]] \o SlashJoin(c, i + 1)

\* the maximal runs of characters other than "/" of a string, in order
RunLen(s) ==
  CHOOSE n \in 1..Len(s) :
    /\ \A i \in 1..n : s[i] # "/"
    /\ n = Len(s) \/ s[n + 1] = "/"

RECURSIVE Runs(_)
Runs(s) ==
  IF s = <<>> THEN <<>>
  ELSE IF Head(s) = "/" THEN Runs(Tail(s))
  ELSE <<SubSeq(s, 1, RunLen(s))>> \o Runs(SubSeq(s, RunLen(s) + 1, Len(s)))

\* the child of e with the least index among those named seg, else None
FirstNamed(e, seg) ==
  LET I == { i \in 1..Len(Children(e)) : entity_name[Children(e)[i]] = seg } IN
  IF I = {} THEN None
  ELSE Children(e)[CHOOSE i \in I : \A j \in I : i <= j]

RECURSIVE Walk(_, _)
Walk(e, segs) ==
  IF segs = <<>> THEN e
  ELSE IF FirstNamed(e, Head(segs)) = None THEN None
  ELSE Walk(FirstNamed(e, Head(segs)), Tail(segs))

\* a name that is one path segment: not empty and without "/"
SimpleName(n) == n # <<>> /\ \A i \in 1..Len(n) : n[i] # "/"

\* every entity of the chain below its root has a one-segment name
SimpleNames(c) == \A i \in 2..Len(c) : SimpleName(entity_name[c[i]])

\* no entity of the chain has an earlier sibling of the same name
FirstOfName(c) ==
  \A i \in 2..Len(c) :
    \A j \in 1..Len(Children(c[i - 1])) :
      entity_name[Children(c[i - 1])[j]] = entity_name[c[i]]
        => \E k \in 1..j : Children(c[i - 1])[k] = c[i]

\* ------------------------------------------------------------------ C1
\* C1: in every reachable state, for all entities A and B, A is in B's
\* parent list if and only if B is in A's child list.
InversePairs ==
  \A A \in Entities, B \in Entities :
    InList(A, Parents(B)) <=> InList(B, Children(A))

\* a relation was removed while another pair is still related
InversePairsWitness ==
  /\ last.op \in {"remove_parent", "remove_child"}
  /\ last.self # last.other
  /\ \E A \in Entities, B \in Entities :
       InList(A, Parents(B)) /\ InList(B, Children(A))

\* ------------------------------------------------------------------ C2
\* C2: right after A.add_child(B) has completed, B.get_parent() returns A
\* and A.get_children() contains B, whatever relations A and B had before.
AddChildGivesParent ==
  (last.op = "add_child" /\ last.err = "none")
    => /\ get_parent(last.other) = [err |-> "none", val |-> last.self]
       /\ InList(last.other, get_children(last.self))

\* ------------------------------------------------------------------ C3
\* C3: in every reachable state every entity's parent list has at most one
\* element.
SingleParent == \A e \in Entities : Len(Parents(e)) <= 1

\* ------------------------------------------------------------------ C4
\* C4: A.add_parent(A) and A.add_child(A) end with ValueError and leave the
\* parent and child lists of every entity as they were.
SelfRelationRejected ==
  [][ (last'.op \in {"add_parent", "add_child"} /\ last'.self = last'.other)
        => (last'.err = "ValueError" /\ relations' = relations) ]_vars

\* an entity that already has relations was asked to be its own child
SelfRelationWitness ==
  /\ last.op = "add_child"
  /\ last.self = last.other
  /\ last.err = "ValueError"
  /\ Children(last.self) # <<>>

\* ------------------------------------------------------------------ C5
\* C5: get_parent returns None on an empty parent list, the parent on a
\* list of one, and raises, returning no entity, on a longer list.
GetParentContract ==
  \A e \in Entities :
    /\ Len(Parents(e)) = 0 => get_parent(e) = [err |-> "none", val |-> None]
    /\ Len(Parents(e)) = 1
         => get_parent(e) = [err |-> "none", val |-> Parents(e)[1]]
    /\ Len(Parents(e)) > 1
         => /\ get_parent(e).err = "ValueError"
            /\ ~InList(get_parent(e).val, Parents(e))

\* an entity with two parents, where get_parent raises, beside a parentless
\* one
GetParentWitness ==
  \E a \in Entities, c \in Entities :
    /\ Len(Parents(a)) = 0 /\ get_parent(a).val = None
    /\ Len(Parents(c)) > 1 /\ get_parent(c).err = "ValueError"

\* an entity with exactly one parent, which get_parent returns
GetParentOneWitness ==
  \E b \in Entities :
    Len(Parents(b)) = 1 /\ get_parent(b) = [err |-> "none", val |-> Parents(b)[1]]

\* ------------------------------------------------------------------ C6
\* C6 as stated: for every parentless R and every E reached from R by child
\* links, R.get_entity_by_path(E.get_absolute_path()) returns E.
RoundTrip ==
  \A R \in Entities, E \in Entities :
    (Len(Parents(R)) = 0 /\ E # R /\ Below(R, E))
      => /\ get_absolute_path(E).err = "none"
         /\ get_entity_by_path(R, get_absolute_path(E).val) = E

\* C6 amended: for every parentless R and every other E reached from R by
\* child links, get_absolute_path(E) raises ValueError when an entity on the way up
\* from E has several parents; otherwise it returns a path and, the names
\* below R on the chain being single segments, the round trip returns E
\* exactly when no entity of the chain has an earlier sibling of its name.
\* For R itself the round trip returns R exactly when R's name has no
\* segment (it is empty or made of "/" only).
RoundTripAmended ==
  \A R \in Entities, E \in Entities :
    (Len(Parents(R)) = 0 /\ (E = R \/ Below(R, E)))
      => LET p == get_absolute_path(E)
             c == ChainTo(E, NumEntities)
         IN IF E = R
            THEN /\ p.err = "none"
                 /\ (get_entity_by_path(R, p.val) = R)
                      <=> (Runs(entity_name[R]) = <<>>)
            ELSE IF c = <<>> THEN p.err = "ValueError"
            ELSE /\ p.err = "none"
                 /\ c[1] = R
                 /\ SimpleNames(c)
                      => ((get_entity_by_path(R, p.val) = E) <=> FirstOfName(c))

\* a grandchild of a root that the round trip finds again
RoundTripWitness ==
  \E R \in Entities, E \in Entities :
    /\ Len(Parents(R)) = 0 /\ Below(R, E)
    /\ Len(ChainTo(E, NumEntities)) = 3
    /\ SimpleNames(ChainTo(E, NumEntities))
    /\ FirstOfName(ChainTo(E, NumEntities))
    /\ get_absolute_path(E).err = "none"
    /\ get_entity_by_path(R, get_absolute_path(E).val) = E

\* ------------------------------------------------------------------ C7
\* C7: the absolute path of a parentless entity is its name; that of the
\* last entity of a chain (root, e1, ..., en), n >= 1, is "/" name(e1) "/"
\* ... "/" name(en), without the root's name.
AbsolutePathFormat ==
  \A e \in Entities :
    LET c == ChainTo(e, NumEntities) IN
    /\ Len(c) = 1
         => get_absolute_path(e) = [err |-> "none", val |-> entity_name[e]]
    /\ Len(c) > 1
         => get_absolute_path(e) = [err |-> "none", val |-> SlashJoin(c, 2)]

\* root -> a -> b gives "/a/b"
AbsolutePathWitness ==
  \E e \in Entities :
    /\ Len(ChainTo(e, NumEntities)) = 3
    /\ entity_name[ChainTo(e, NumEntities)[1]] = RootName
    /\ get_absolute_path(e) = [err |-> "none", val |-> <<"/", "a", "/", "b">>]

\* ------------------------------------------------------------------ C8
\* C8: get_entity_by_path walks the non-empty segments of the path from the
\* calling entity, at each segment to the first child of that name in list
\* order, returns None as soon as no child has the name, and returns the
\* calling entity when the path has no segment.
PathDescent ==
  \A e \in Entities, p \in PathPool :
    /\ get_entity_by_path(e, p) = Walk(e, Runs(p))
    /\ Runs(p) = <<>> => get_entity_by_path(e, p) = e

\* two children of the same name: the earlier one is found, and a name no
\* child has gives None
PathDescentWitness ==
  \E e \in Entities :
    /\ Len(Children(e)) = 2
    /\ entity_name[Children(e)[1]] = <<"a">>
    /\ entity_name[Children(e)[2]] = <<"a">>
    /\ get_entity_by_path(e, <<"/", "a">>) = Children(e)[1]
    /\ get_entity_by_path(e, <<"b">>) = None
    /\ get_entity_by_path(e, <<"/">>) = e

\* ------------------------------------------------------------------ C9
\* C9: a bind_skill call with a name that is not in the registry ends with
\* ValueError and leaves the skill list and the binding table of every
\* entity as they were.
UnknownSkillRejected ==
  [][ (Len(calls') = Len(calls) + 1
        /\ calls'[Len(calls')].name \notin EOS_SKILL_SPECS)
        => /\ calls'[Len(calls')].err = "ValueError"
           /\ primitives' = primitives
           /\ primitive_bindings' = primitive_bindings ]_vars

\* an entity with a bound skill was asked to bind an unregistered name
UnknownSkillWitness ==
  /\ calls # <<>>
  /\ calls[Len(calls)].name \notin EOS_SKILL_SPECS
  /\ calls[Len(calls)].err = "ValueError"
  /\ primitives[calls[Len(calls)].self] # <<>>

\* ------------------------------------------------------------------ C10
\* the successful bind_skill calls of name n on entity e, by position
BindCalls(e, n) ==
  { i \in 1..Len(calls) :
      calls[i].self = e /\ calls[i].name = n /\ calls[i].err = "none" }

MinOf(S) == CHOOSE i \in S : \A j \in S : i <= j
MaxOf(S) == CHOOSE i \in S : \A j \in S : i >= j

\* how many names were bound on e for the first time before n was, plus one
FirstBindRank(e, n) ==
  1 + Cardinality({ m \in SkillNames :
                      /\ BindCalls(e, m) # {}
                      /\ MinOf(BindCalls(e, m)) < MinOf(BindCalls(e, n)) })

\* C10: after successful bind_skill calls, a skill name resolves to the
\* implementation of the latest bind_skill call for that name, and the name
\* is in the skill list exactly once, at the position of its first binding.
LastWriterWins ==
  \A e \in Entities, n \in SkillNames :
    BindCalls(e, n) # {}
      => /\ getattr_binding(e, n)
              = [err |-> "none", impl |-> calls[MaxOf(BindCalls(e, n))].func]
         /\ Cardinality({ i \in 1..Len(primitives[e]) : primitives[e][i] = n }) = 1
         /\ FirstBindRank(e, n) <= Len(primitives[e])
         /\ primitives[e][FirstBindRank(e, n)] = n

\* a name bound first, then a second name, then the first name bound again
\* with another implementation
LastWriterWinsWitness ==
  \E e \in Entities :
    /\ Len(calls) = 3
    /\ \A i \in 1..3 : calls[i].self = e /\ calls[i].err = "none"
    /\ calls[1].name = calls[3].name
    /\ calls[1].name # calls[2].name
    /\ calls[1].func # calls[3].func
    /\ primitives[e] = <<calls[1].name, calls[2].name>>
    /\ getattr_binding(e, calls[1].name).impl = calls[3].func

\* the sequences that list every element of the set S once
Orderings(S) ==
  { f \in [1..Cardinality(S) -> S] : \A x \in S : \E i \in DOMAIN f : f[i] = x }

\* the text msg ends with ": " and a list of exactly the skills bound on e
ListsBound(msg, e) ==
  \E L \in Orderings(DOMAIN primitive_bindings[e]) :
    /\ Len(msg) > Len(L)
    /\ msg[Len(msg) - Len(L)] = ": "
    /\ SubSeq(msg, Len(msg) - Len(L) + 1, Len(msg)) = L

\* C11: in every state of the graph, looking up a skill name that is not
\* bound on the entity ends with the AttributeError whose text lists the
\* skills bound on the entity; no implementation is called and the graph
\* and the bindings stay as they were.
UnboundSkillError ==
  [][ (inv' # inv /\ inv'.name \notin DOMAIN primitive_bindings[inv'.self])
        => /\ inv'.pc = "raised"
           /\ inv'.err = "AttributeError"
           /\ ListsBound(inv'.msg, inv'.self)
           /\ inv'.nimpl = 0
           /\ UNCHANGED <<entity_name, relations, primitives, primitive_bindings>>
    ]_vars

\* the argument names the registry declares for a skill
DeclaredNames(name) ==
  LET i == SkillSpecTable[name].input IN
  IF i = NoInput THEN {} ELSE ShapeKeys(i)

\* the shape the registry declares for an argument of a skill
DeclaredShape(name, arg) ==
  LET f == SkillSpecTable[name].input.fields IN
  f[CHOOSE i \in 1..Len(f) : f[i][1] = arg][2]

\* the wrapper of inv was called: inv.kwargs is what the caller passed
Called == Len(inv.steps) >= 1

\* the part of a formatted message between "<kind>: " and the suffix
Details(msg) == SubSeq(msg, 3, Len(msg) - 3)

\* C12: a bound skill called with argument names other than the declared
\* ones (a name missing, a name too many, or any argument for a skill that
\* takes none) fails with the ValueError about its arguments, and the
\* implementation is not called.
ArgumentNamesChecked ==
  (Called /\ DOMAIN inv.kwargs # DeclaredNames(inv.name))
    => /\ inv.pc = "raised"
       /\ inv.err = "ValueError"
       /\ Details(inv.msg) \in {NoArgumentsMsg(inv.name), ArgumentNamesMsg(inv.name)}
       /\ inv.nimpl = 0
       /\ inv.steps = <<"check_args">>

\* c_space_getpos, which takes no argument, was called with x and y
ArgumentNamesWitness ==
  /\ inv.name = "c_space_getpos"
  /\ DOMAIN inv.kwargs = {"x", "y"}
  /\ inv.pc = "raised"
  /\ inv.err = "ValueError"
  /\ inv.nimpl = 0

\* the value matches the shape declared for the argument
Matches(name, arg, v) == IsTrue(is_type_match(v, DeclaredShape(name, arg)))

\* the value can be cast to the shape declared for the argument
Castable(name, arg, v) == try_cast(v, DeclaredShape(name, arg)).err = "none"

\* the kwargs have the declared names and every value matches or can be cast
Acceptable(name, kwargs) ==
  /\ DOMAIN kwargs = DeclaredNames(name)
  /\ \A a \in DOMAIN kwargs :
       Matches(name, a, kwargs[a]) \/ Castable(name, a, kwargs[a])

\* C13: a bound skill called with exactly the declared argument names, some
\* values not matching their declared shape but castable to it, passes the
\* argument check: the implementation is called, with the cast value for
\* each mismatched argument and every matching argument as the caller
\* passed it, and the call returns when the returned value matches the
\* output schema.
CastArgumentsPassed ==
  (/\ Called
   /\ Acceptable(inv.name, inv.kwargs)
   /\ \E a \in DOMAIN inv.kwargs : ~Matches(inv.name, a, inv.kwargs[a]))
    => /\ inv.steps = <<"check_args">> => inv.pc = "args_checked"
       /\ Len(inv.steps) >= 2 =>
            /\ inv.nimpl = 1
            /\ DOMAIN inv.passed = DOMAIN inv.kwargs
            /\ \A a \in DOMAIN inv.kwargs :
                 inv.passed[a] =
                   IF Matches(inv.name, a, inv.kwargs[a]) THEN inv.kwargs[a]
                   ELSE try_cast(inv.kwargs[a], DeclaredShape(inv.name, a)).val
       /\ (/\ Len(inv.steps) = 3
           /\ IsTrue(recursive_type_check(inv.result,
                                            SkillSpecTable[inv.name].output)))
            => inv.pc = "returned" /\ inv.value = inv.result

\* c_space_move(x=1.0, y="1.5", z=1) returned, and its implementation was
\* called with x=1.0, y=1.5, z=1.0
CastArgumentsWitness ==
  /\ inv.name = "c_space_move"
  /\ inv.kwargs = [x |-> F1, y |-> S15, z |-> I1]
  /\ inv.pc = "returned"
  /\ inv.passed = [x |-> F1, y |-> PyVal("float", "1.5"), z |-> PyVal("float", "1.0")]
  /\ inv.value = PyDict([success |-> BTrue])

\* the arguments of a call, with the declared names, whose value neither
\* matches the declared shape nor can be cast to it
Offending(name, kwargs) ==
  { a \in DOMAIN kwargs :
      ~Matches(name, a, kwargs[a]) /\ ~Castable(name, a, kwargs[a]) }

\* the offending argument declared first
FirstOffending(name, kwargs) ==
  LET f == SkillSpecTable[name].input.fields
      I == { i \in 1..Len(f) : f[i][1] \in Offending(name, kwargs) }
  IN f[CHOOSE i \in I : \A j \in I : i <= j][1]

\* C14: a bound skill called with the declared argument names and a value
\* that neither matches its declared shape nor can be cast to it (a dict
\* lacking a declared key included) fails with the TypeError that names
\* the offending argument, and the implementation is not called.
UncastableArgumentRejected ==
  (/\ Called
   /\ DOMAIN inv.kwargs = DeclaredNames(inv.name)
   /\ Offending(inv.name, inv.kwargs) # {})
    => /\ inv.pc = "raised"
       /\ inv.err = "TypeError"
       /\ Details(inv.msg)
            = ArgumentTypeMsg(FirstOffending(inv.name, inv.kwargs), inv.name)
       /\ inv.nimpl = 0

\* the implementation returned and the return check was made
ReturnChecked == Len(inv.steps) = 3

\* C15: when the implementation returns a dict whose keys are not the keys
\* of the skill's output schema, the call ends with the TypeError about the
\* return value and the caller gets no value.
ReturnKeysChecked ==
  (/\ ReturnChecked
   /\ inv.result.type = "dict"
   /\ DOMAIN inv.result.items # ShapeKeys(SkillSpecTable[inv.name].output))
    => /\ inv.pc = "raised"
       /\ inv.err = "TypeError"
       /\ Details(inv.msg) = ReturnTypeMsg(inv.name)
       /\ inv.value = PyNone

\* c_space_getpos, declared to return x, y and z, returned x, y, z and w
ReturnKeysWitness ==
  /\ inv.name = "c_space_getpos"
  /\ inv.result = PyDict([x |-> F1, y |-> F1, z |-> F1, w |-> F1])
  /\ inv.pc = "raised"
  /\ inv.err = "TypeError"
  /\ inv.nimpl = 1

WrapperSteps == <<"check_args", "impl", "check_returns">>

\* C17: the steps of every invocation come in one order: the argument check
\* is over before the implementation is called, the implementation is
\* called at most once, the return check comes after the implementation
\* returned and before the caller gets the result, and the caller gets a
\* result only when both checks passed.
InvocationOrder ==
  /\ Len(inv.steps) <= Len(WrapperSteps)
  /\ inv.steps = SubSeq(WrapperSteps, 1, Len(inv.steps))
  /\ inv.nimpl = (IF Len(inv.steps) >= 2 THEN 1 ELSE 0)
  /\ Len(inv.steps) >= 2 => check_primitive_args(inv.name, inv.kwargs).err = "none"
  /\ inv.pc = "impl_returned" <=> (Len(inv.steps) = 2 /\ inv.err = "none")
  /\ inv.pc = "returned"
       => /\ inv.steps = WrapperSteps
          /\ check_primitive_args(inv.name, inv.kwargs).err = "none"
          /\ check_primitive_returns(inv.name, inv.result).err = "none"
          /\ inv.err = "none"
  /\ inv.pc # "returned" => inv.value = PyNone

\* an invocation went through the three steps and gave its result
InvocationOrderWitness ==
  /\ inv.pc = "returned"
  /\ inv.steps = WrapperSteps
  /\ inv.nimpl = 1
  /\ inv.name = "c_space_goto"
  /\ inv.value = inv.result

\* the invocation ended in a failure of the argument check or of the
\* return check
ValidationFailed ==
  /\ inv.pc = "raised"
  /\ \/ inv.steps = <<"check_args">>
     \/ inv.steps = WrapperSteps

\* the error of the failed check itself: its kind and its text
Underlying ==
  IF inv.steps = <<"check_args">>
  THEN LET a == check_primitive_args(inv.name, inv.kwargs) IN
       [err |-> a.err, msg |-> a.msg]
  ELSE check_primitive_returns(inv.name, inv.result)

\* C18 as stated: on every failure of the argument check or of the return
\* check the caller gets an error of the kind of the underlying error whose
\* text is "<ErrorKind>: <details> (skill: <name>)".
ErrorFormatSkill ==
  ValidationFailed
    => /\ inv.err = Underlying.err
       /\ inv.msg = <<Underlying.err, ": ">> \o Underlying.msg
                      \o <<" (skill: ", inv.name, ")">>

\* C18 amended: the kind is that of the underlying error; for a ValueError
\* or TypeError the text is "<ErrorKind>: <details> (primitive: <name>)",
\* and the KeyError of a dict argument lacking a declared key reaches the
\* caller with its own text.
ErrorFormat ==
  ValidationFailed
    => /\ inv.err = Underlying.err
       /\ inv.err \in {"ValueError", "TypeError", "KeyError"}
       /\ inv.err \in {"ValueError", "TypeError"}
            => inv.msg = <<Underlying.err, ": ">> \o Underlying.msg
                           \o <<" (primitive: ", inv.name, ")">>
       /\ inv.err = "KeyError" => inv.msg = Underlying.msg

\* c_space_move returned success as the int 1: the caller gets the
\* formatted TypeError of the return check
ErrorFormatWitness ==
  /\ inv.name = "c_space_move"
  /\ inv.result = PyDict([success |-> I1])
  /\ inv.pc = "raised"
  /\ inv.msg = <<"TypeError", ": ", "Return value for '", "c_space_move",
                 "' does not match expected type", " (primitive: ",
                 "c_space_move", ")">>

\* the calls of flow-wrapped functions, among the first n, in which the
\* function raised an error
RECURSIVE FailedCalls(_)
FailedCalls(n) ==
  IF n = 0 THEN <<>>
  ELSE IF flow_calls[n].did.err \in {"ValueError", "RuntimeError"}
    THEN Append(FailedCalls(n - 1), n)
  ELSE FailedCalls(n - 1)

\* C19: whenever the function wrapped by flow raises an error it does not
\* catch, the call of the wrapper returns FAILURE, no exception leaves the
\* wrapper, and an entry of level ERROR about that function is logged.
FlowCatchesErrors ==
  LET failed == FailedCalls(Len(flow_calls)) IN
  /\ \A k \in 1..Len(failed) :
       /\ flow_calls[failed[k]].got = Returned(FlowResult("FAILURE"))
       /\ k <= Len(log)
       /\ log[k].level = "ERROR"
       /\ log[k].msg[2] = flow_calls[failed[k]].func
  /\ Len(log) >= Len(failed)

\* flow_b raised RuntimeError: its caller got FAILURE and the log has the
\* entry
FlowCatchesErrorsWitness ==
  /\ Len(flow_calls) = 1
  /\ flow_calls[1].func = "flow_b"
  /\ flow_calls[1].did = RaisedWith("RuntimeError", <<"boom">>)
  /\ flow_calls[1].got = Returned(FlowResult("FAILURE"))
  /\ log = << [level |-> "ERROR",
               msg |-> <<"flow function ", "flow_b", " failed: ", "boom">>] >>

\* C20: when the wrapped function returns, the wrapper returns that very
\* value, a member of the enumeration or not, and logs no error; the only
\* value the wrapper ever puts in place of the function's outcome is
\* FAILURE, never SUCCESS or ABORT.
FlowPassesValue ==
  /\ \A i \in 1..Len(flow_calls) :
       /\ flow_calls[i].did.err = "none" => flow_calls[i].got = flow_calls[i].did
       /\ flow_calls[i].got # flow_calls[i].did
            => flow_calls[i].got = Returned(FlowResult("FAILURE"))
  /\ Len(log) <= Cardinality({ i \in 1..Len(flow_calls) :
                                 flow_calls[i].did.err # "none" })

\* flow_a returned None twice: its callers got None and nothing was logged
FlowPassesValueWitness ==
  /\ Len(flow_calls) = 2
  /\ \A i \in 1..2 :
       /\ flow_calls[i].func = "flow_a"
       /\ flow_calls[i].did = Returned(PyNone)
       /\ flow_calls[i].got = Returned(PyNone)
  /\ log = <<>>

\* C21: an error raised by a skill implementation is never turned into a
\* normal return by the entity: the invocation ends with an error of the same
\* kind at its caller, and the caller of a flow-wrapped function around it
\* gets the returned outcome FAILURE; a returned FAILURE is only ever got
\* through a flow-wrapped function.
ImplErrorNotSwallowed ==
  /\ inv.implerr # "none" =>
       /\ inv.pc = "raised"
       /\ inv.err = inv.implerr
       /\ inv.value = PyNone
       /\ (inv.flow # "" /\ inv.implerr \in ExceptionKinds) =>
            inv.got = Returned(FlowResult("FAILURE"))
  /\ inv.got = Returned(FlowResult("FAILURE")) => inv.flow # ""
  /\ inv.flow = "" => inv.got = IdleInv.got

ImplErrorNotSwallowedWitness ==
  /\ inv.implerr = "RuntimeError"
  /\ inv.flow = "flow_a"
  /\ inv.got = Returned(FlowResult("FAILURE"))
  /\ Len(log) = 1

ModuleObjects == { members[i] : i \in 1..Len(MemberNames) } \ {Absent}
FoundObjects == { found.got[i] : i \in 1..Len(found.got) }

\* C22: get_flow_functions returns exactly the functions of the module that
\* carry the flow marker: every function produced by the flow wrapper is in
\* the list and nothing without the marker is.
FlowFunctionsExact ==
  found.fresh =>
    /\ FoundObjects =
         { o \in ModuleObjects : isfunction(o) /\ hasattr(o, "_is_flow") }
    /\ \A o \in ModuleObjects :
         (\E k \in MemberKinds : o = flow(Defined(k, o.name))) =>
           o \in FoundObjects
    /\ \A o \in FoundObjects : hasattr(o, "_is_flow")

FlowFunctionsExactWitness ==
  /\ found.fresh
  /\ Len(found.got) = 1
  /\ found.got[1] = flow(Defined("function", "beta"))
  /\ members[1] = Defined("function", "alpha")
  /\ members[3].kind = "class" /\ hasattr(members[3], "_is_flow")

RECURSIVE HasDataclass(_)
HasDataclass(shape) ==
  IF shape.kind = "dataclass" THEN TRUE
  ELSE IF shape.kind \in {"dict", "dataclass"}
    THEN \E i \in 1..Len(shape.fields) : HasDataclass(shape.fields[i][2])
  ELSE IF shape.kind = "alternatives"
    THEN \E i \in 1..Len(shape.alts) : HasDataclass(shape.alts[i])
  ELSE IF shape.kind = "tuple_of"
    THEN \E i \in 1..Len(shape.elems) : HasDataclass(shape.elems[i])
  ELSE IF shape.kind = "list_of" THEN HasDataclass(shape.elem)
  ELSE FALSE

\* C23: the matcher of the arguments and the matcher of the return values
\* give the same verdict for every value and every shape that has no
\* dataclass in it; a list of alternatives matches when one of them does and
\* typing.Any matches every value.
MatchersAgree ==
  probe.op = "match" =>
    /\ ~HasDataclass(probe.shape) => probe.input = probe.output
    /\ probe.shape.kind = "any" =>
         IsTrue(probe.input) /\ IsTrue(probe.output)
    /\ probe.shape.kind = "alternatives" =>
         LET any == \E i \in 1..Len(probe.shape.alts) :
                      IsTrue(is_type_match(probe.value, probe.shape.alts[i]))
         IN probe.input = Verdict(any) /\ probe.output = Verdict(any)

\* the alternatives of a list of alternatives that a value can be cast to
CastableTo(value, alts) ==
  { i \in 1..Len(alts) : try_cast(value, alts[i]).err = "none" }

Without(l, x) == SelectSeq(l, LAMBDA y : y # x)

\* C25: A.remove_child(B) and B.remove_parent(A) have the same effect: B is
\* no longer among A's children and A no longer among B's parents, every
\* other entry of every list stays where it was, and when the relation does
\* not exist nothing changes; neither call raises an error.
RemoveEitherWay ==
  [][ last'.op \in {"remove_child", "remove_parent"} =>
        LET A == IF last'.op = "remove_child" THEN last'.self ELSE last'.other
            B == IF last'.op = "remove_child" THEN last'.other ELSE last'.self
        IN
        /\ last'.err = "none"
        /\ relations' = remove_child(relations, A, B).rels
        /\ relations' = remove_parent(relations, B, A).rels
        /\ ~InList(B, relations'[A]["child_of"])
        /\ ~InList(A, relations'[B]["parent_of"])
        /\ \A e \in Entities :
             /\ relations'[e]["child_of"] =
                  IF e = A THEN Without(relations[e]["child_of"], B)
                  ELSE relations[e]["child_of"]
             /\ relations'[e]["parent_of"] =
                  IF e = B THEN Without(relations[e]["parent_of"], A)
                  ELSE relations[e]["parent_of"]
        /\ (~InList(B, relations[A]["child_of"])
            /\ ~InList(A, relations[B]["parent_of"])) => relations' = relations
    ]_vars

RemoveEitherWayWitness ==
  /\ last.op = "remove_parent"
  /\ last.self = 2 /\ last.other = 1
  /\ relations[1]["child_of"] = <<3>>
  /\ relations[2]["parent_of"] = <<3>>

NoDuplicates(l) == \A i, j \in 1..Len(l) : l[i] = l[j] => i = j

\* C26 as stated, for entity 1: get_children returns the current children
\* in the order in which each was added for the first time, without
\* duplicates.
ChildrenInFirstAddedOrder ==
  /\ NoDuplicates(get_children(1))
  /\ get_children(1) =
       SelectSeq(first_added, LAMBDA c : InList(c, get_children(1)))

\* C26: get_children returns the current children without duplicates and in
\* the order in which each was added since it last was not a child: a call
\* leaves the list as it is, puts one new child at its end or takes one
\* child out and keeps the order of the rest; the same holds for the list of
\* parents, and adding a child or parent that is present changes no list.
ChildrenInInsertionOrder ==
  [][ /\ \A e \in Entities : \A rt \in {"child_of", "parent_of"} :
           LET old == relations[e][rt]
               new == relations'[e][rt]
           IN /\ NoDuplicates(new)
              /\ \/ new = old
                 \/ \E x \in Entities : ~InList(x, old) /\ new = Append(old, x)
                 \/ \E x \in Entities : InList(x, old) /\ new = Without(old, x)
      /\ \A e \in Entities : get_children(e)' = relations'[e]["child_of"]
      /\ (/\ last'.op \in {"add_child", "add_parent"}
          /\ LET A == IF last'.op = "add_child" THEN last'.self ELSE last'.other
                 B == IF last'.op = "add_child" THEN last'.other ELSE last'.self
             IN InList(B, relations[A]["child_of"])
                /\ InList(A, relations[B]["parent_of"]))
         => relations' = relations
    ]_vars

ChildrenInInsertionOrderWitness ==
  /\ first_added = <<2, 3>>
  /\ get_children(1) = <<3, 2>>
  /\ last.op = "add_child" /\ last.self = 1 /\ last.other = 2

\* C27: the parent/child relation has no cycle in any reachable state: no
\* entity is reached from itself by one or more child links.
Acyclic == \A e \in Entities : ~Below(e, e)

\* C28: get_absolute_path on any entity and get_entity_by_path with any
\* finite path terminate: a call that was made ends with a result or an
\* error.
PathCallsTerminate == (walk.pc \notin {"idle", "done"}) ~> (walk.pc = "done")

\* what the frames of a path call end with is what the call returns
WalkResult ==
  walk.pc = "done" =>
    IF walk.op = "get_absolute_path"
    THEN walk.out = get_absolute_path(walk.self)
    ELSE \E path \in WalkPaths :
           walk.ent = get_entity_by_path(walk.self, path)

PathCallsTerminateWitness ==
  /\ walk.op = "get_absolute_path"
  /\ walk.pc = "done"
  /\ walk.out.err = "RecursionError"
  /\ Below(walk.self, walk.self)

\* C29: after any sequence of bind_skill, add_primitive and
\* remove_primitive the names of the skill list are the bound names:
\* has_primitive(n) is true exactly when the lookup of n on the entity
\* resolves to an implementation.
SkillListIsBound ==
  \A e \in Entities : \A n \in SkillNames :
    has_primitive(primitives[e], n) <=> getattr_binding(e, n).err = "none"

\* C30: the entity modules of manager and uapi are equivalent on the graph
\* operations: after the same relation calls the entities hold the same
\* lists, the calls ended the same way, and get_parent, get_children,
\* is_root, get_absolute_path and get_entity_by_path give the same results
\* and the same errors.
GraphModulesAgree ==
  /\ manager.relations = relations
  /\ manager.last = last
  /\ \A e \in Entities :
       /\ manager_get_parent(e) = get_parent(e)
       /\ manager_get_children(e) = get_children(e)
       /\ manager_is_root(e) = is_root(e)
       /\ manager_get_absolute_path(e) = get_absolute_path(e)
       /\ \A path \in PathPool :
            manager_get_entity_by_path(e, path) = get_entity_by_path(e, path)

GraphModulesAgreeWitness ==
  /\ manager_get_children(1) = <<2>>
  /\ manager_get_children(2) = <<3>>
  /\ manager_get_absolute_path(3) =
       [err |-> "none", val |-> <<"/", "a", "/", "a">>]
  /\ manager_get_entity_by_path(1, <<"a", "/", "a">>) = 3
  /\ manager.last.op = "add_child"

\* ------------------------------------------------------------------ C31
\* C31: every round of the tool-call loop of process_query, entered because
\* a line of the current response holds the call marker, parses and makes at
\* least one tool call before it ends, so that a new response has replaced
\* the one it was entered with and no round is repeated on the same response.
ToolLoopProgress ==
  [][(client.pc = "for" /\ client'.pc = "while") => client.k >= 1]_vars

====
